---- MODULE Spec2Model ----
(***************************************************************************)
(* devjournal: the cursor-based ordered collection (SelectionList), the    *)
(* crypto envelope, the persistence layer and the event handlers that      *)
(* load and save the journal.                                              *)
(***************************************************************************)
EXTENDS Integers, Sequences, FiniteSets, TLC

(***************************************************************************)
(* Bounds of the model.                                                    *)
(***************************************************************************)
MaxLen == 3
MaxItem == 2
MaxShortPw == 2
PwExtra == 1
MaxPlain == 2
NumNonces == 2
MaxWalk == 1
MaxKeys == 3

VARIABLES
    list,             \* the SelectionList under test: [items, selection]
    op,               \* name of the last SelectionList operation
    before,           \* the list as it was before the last operation
    ret,              \* what the last operation returned
    panicked,         \* the process aborted (panic)
    overflow_checks,  \* build profile: arithmetic overflow panics (debug) or wraps (release)
    plaintext,        \* crypto envelope: the buffer handed to encrypt
    key,              \* crypto envelope: the password handed to encrypt
    blob,             \* crypto envelope: the blob encrypt returned, as decrypt receives it
    dkey,             \* crypto envelope: the password of the last encrypt / decrypt call
    derived,          \* crypto envelope: the 32-byte key the last call derived
    truncated,        \* crypto envelope: the blob was cut short after encrypt
    journal,          \* App.journal, the journal in memory
    filepath,         \* App.filepath, the current file (its name inside the data directory)
    files,            \* the data directory: file name -> Option<contents>
    prompt_request,   \* App.prompt_request
    file_request,     \* App.file_request
    args,             \* the arguments of the last SelectionList / Journal operation
    steps             \* operations applied so far, in the runs that count them (-1: not counted)

cryptoVars == <<plaintext, key, blob, dkey, derived, truncated>>
appVars == <<journal, filepath, files, prompt_request, file_request>>
vars == <<list, op, before, ret, panicked, overflow_checks,
          plaintext, key, blob, dkey, derived, truncated,
          journal, filepath, files, prompt_request, file_request, args, steps>>

\* the application is not part of the run
NoApp ==
    /\ journal = <<>>
    /\ filepath = <<>>
    /\ files = <<>>
    /\ prompt_request = <<>>
    /\ file_request = <<>>

(***************************************************************************)
(* Option<T>: None is the empty sequence, Some(x) the one-element one.     *)
(***************************************************************************)
None == <<>>
Some(x) == <<x>>
IsSome(o) == Len(o) = 1
Unwrap(o) == o[1]

(***************************************************************************)
(* usize arithmetic.  USIZE_MAX stands for usize::MAX; it only has to be   *)
(* far above every length the model reaches.                               *)
(***************************************************************************)
USIZE_MAX == 2147483647
SubOverflows(a, b) == a < b
WrapSub(a, b) == IF a >= b THEN a - b ELSE USIZE_MAX - (b - a) + 1
AddOverflows(a, b) == a > USIZE_MAX - b
WrapAdd(a, b) == IF a <= USIZE_MAX - b THEN a + b ELSE a - (USIZE_MAX - b) - 1

(***************************************************************************)
(* Vec<T> primitives (std), with their panics.                             *)
(***************************************************************************)
VecInsert(v, i, x) == SubSeq(v, 1, i) \o <<x>> \o SubSeq(v, i + 1, Len(v))
VecRemove(v, i) == SubSeq(v, 1, i) \o SubSeq(v, i + 2, Len(v))
VecSwap(v, a, b) ==
    [k \in 1..Len(v) |-> IF k = a + 1 THEN v[b + 1] ELSE IF k = b + 1 THEN v[a + 1] ELSE v[k]]
VecGet(v, i) == IF i < Len(v) THEN Some(v[i + 1]) ELSE None

(***************************************************************************)
(* Return values.                                                          *)
(***************************************************************************)
Unit == [kind |-> "unit", val |-> <<>>, err |-> ""]
Ok(v) == [kind |-> "Ok", val |-> <<v>>, err |-> ""]
Err(msg) == [kind |-> "Err", val |-> <<>>, err |-> msg]
Opt(o) == [kind |-> IF IsSome(o) THEN "Some" ELSE "None", val |-> o, err |-> ""]
Aborted == [kind |-> "panic", val |-> <<>>, err |-> ""]

Done(self, r) == [self |-> self, ret |-> r, panic |-> FALSE]
Panic(self) == [self |-> self, ret |-> Aborted, panic |-> TRUE]

(***************************************************************************)
(* SelectionList<T>  (src/app/list.rs)                                     *)
(***************************************************************************)
SelectionList(items, selection) == [items |-> items, selection |-> selection]
default == SelectionList(<<>>, None)
from(vec) == SelectionList(vec, None)

len(self) == Len(self.items)

\* get_item that falls back to the first item when nothing is selected
get_item_first_when_unselected(self, index) ==
    IF IsSome(index) THEN VecGet(self.items, Unwrap(index))
    ELSE IF IsSome(self.selection) THEN VecGet(self.items, Unwrap(self.selection))
    ELSE VecGet(self.items, 0)

get_item(self, index) ==
    IF IsSome(index) THEN VecGet(self.items, Unwrap(index))
    ELSE IF IsSome(self.selection) THEN VecGet(self.items, Unwrap(self.selection))
    ELSE None

selected(self) == get_item(self, None)

push_item(self, item) == Done([self EXCEPT !.items = Append(@, item)], Unit)

\* insert_item that selects the new item whatever `select` says
insert_item_always_selects(self, index, item, sel) ==
    LET i == IF IsSome(index) THEN Unwrap(index) ELSE 0
    IN  IF i > len(self) THEN Panic(self)
        ELSE Done([items |-> VecInsert(self.items, i, item), selection |-> Some(i)], Unit)

insert_item(self, index, item, sel) ==
    LET i == IF IsSome(index) THEN Unwrap(index) ELSE 0
    IN  IF i > len(self) THEN Panic(self)
        ELSE Done([items |-> VecInsert(self.items, i, item),
                   selection |-> IF sel THEN Some(i) ELSE self.selection], Unit)

add_item(self, item, sel, oc) ==
    IF IsSome(self.selection)
    THEN LET index == Unwrap(self.selection)
         IN  IF SubOverflows(len(self), 1) /\ oc THEN Panic(self)
             ELSE IF index >= WrapSub(len(self), 1)
             THEN Done([items |-> Append(self.items, item),
                        selection |-> IF sel THEN Some(len(self)) ELSE self.selection], Unit)
             ELSE IF AddOverflows(index, 1) /\ oc THEN Panic(self)
             ELSE LET ins == insert_item(self, Some(WrapAdd(index, 1)), item, FALSE)
                  IN  IF ins.panic THEN Panic(self)
                      ELSE Done([ins.self EXCEPT !.selection =
                                    IF sel THEN Some(WrapAdd(index, 1)) ELSE @], Unit)
    ELSE Done([items |-> Append(self.items, item),
               selection |-> IF sel THEN Some(len(self)) ELSE self.selection], Unit)

clear_items(self) == Done([self EXCEPT !.items = <<>>], Unit)

\* select with the bound check off by one (index > len)
select_accepts_len(self, index) ==
    IF index > len(self) THEN Done(self, Err("index out of range"))
    ELSE Done([self EXCEPT !.selection = Some(index)], Ok(<<>>))

select(self, index) ==
    IF index >= len(self) THEN Done(self, Err("index out of range"))
    ELSE Done([self EXCEPT !.selection = Some(index)], Ok(<<>>))

deselect(self) == Done([self EXCEPT !.selection = None], Unit)

\* next_index that wraps one step late (index + 1 > len)
next_index_late_wrap(self, oc) ==
    IF ~IsSome(self.selection)
    THEN Done(self, Opt(IF len(self) = 0 THEN None ELSE Some(0)))
    ELSE LET index == Unwrap(self.selection)
         IN  IF WrapAdd(index, 1) > len(self) THEN Done(self, Opt(Some(0)))
             ELSE Done(self, Opt(Some(WrapAdd(index, 1))))

next_index(self, oc) ==
    IF ~IsSome(self.selection)
    THEN Done(self, Opt(IF len(self) = 0 THEN None ELSE Some(0)))
    ELSE LET index == Unwrap(self.selection)
         IN  IF AddOverflows(index, 1) /\ oc THEN Panic(self)
             ELSE IF WrapAdd(index, 1) >= len(self) THEN Done(self, Opt(Some(0)))
             ELSE Done(self, Opt(Some(WrapAdd(index, 1))))

prev_index(self, oc) ==
    IF ~IsSome(self.selection)
    THEN Done(self, Opt(IF len(self) = 0 THEN None ELSE Some(len(self) - 1)))
    ELSE LET index == Unwrap(self.selection)
         IN  IF index = 0
             THEN IF SubOverflows(len(self), 1) /\ oc THEN Panic(self)
                  ELSE Done(self, Opt(Some(WrapSub(len(self), 1))))
             ELSE Done(self, Opt(Some(index - 1)))

select_next(self, oc) ==
    LET n == next_index(self, oc)
    IN  IF n.panic THEN Panic(self)
        ELSE Done([self EXCEPT !.selection = n.ret.val], Unit)

select_prev(self, oc) ==
    LET p == prev_index(self, oc)
    IN  IF p.panic THEN Panic(self)
        ELSE Done([self EXCEPT !.selection = p.ret.val], Unit)

shift_next(self, oc) ==
    IF IsSome(self.selection)
    THEN LET sel == Unwrap(self.selection)
         IN  IF SubOverflows(len(self), 1) /\ oc THEN Panic(self)
             ELSE IF sel < WrapSub(len(self), 1)
             THEN LET new_index == sel + 1
                  IN  IF new_index >= len(self) THEN Panic(self)
                      ELSE Done([items |-> VecSwap(self.items, sel, new_index),
                                 selection |-> Some(new_index)], Ok(new_index))
             ELSE IF len(self) = 0
             THEN Done(self, Err("selection is Some, should have at least one item"))
             ELSE Done([items |-> VecInsert(SubSeq(self.items, 1, len(self) - 1), 0,
                                            self.items[len(self)]),
                        selection |-> Some(0)], Ok(0))
    ELSE Done(self, Err("no item selected"))

\* shift_prev that takes the first item when nothing is selected
shift_prev_unselected_first(self) ==
    IF len(self) > 0
    THEN Done([items |-> Append(VecRemove(self.items, 0), self.items[1]),
               selection |-> Some(len(self) - 1)], Ok(len(self) - 1))
    ELSE Done(self, Err("no item selected"))

shift_prev(self) ==
    IF IsSome(self.selection)
    THEN LET sel == Unwrap(self.selection)
         IN  IF sel > 0
             THEN LET new_index == sel - 1
                  IN  IF sel >= len(self) THEN Panic(self)
                      ELSE Done([items |-> VecSwap(self.items, sel, new_index),
                                 selection |-> Some(new_index)], Ok(new_index))
             ELSE IF sel >= len(self) THEN Panic(self)
             ELSE Done([items |-> Append(VecRemove(self.items, sel), self.items[sel + 1]),
                        selection |-> Some(len(self) - 1)], Ok(len(self) - 1))
    ELSE Done(self, Err("no item selected"))

pop_selected(self) ==
    IF ~IsSome(self.selection) THEN Done(self, Opt(None))
    ELSE LET index == Unwrap(self.selection)
         IN  IF index >= len(self) THEN Panic(self)
             ELSE LET rest == VecRemove(self.items, index)
                  IN  Done([items |-> rest,
                            selection |-> IF Len(rest) = 0 THEN None
                                          ELSE IF index >= Len(rest) THEN Some(Len(rest) - 1)
                                          ELSE self.selection],
                           Opt(Some(self.items[index + 1])))

\* concatenation that keeps the selection of the left operand
add_keeps_selection(self, rhs) ==
    Done(SelectionList(self.items \o rhs.items, self.selection), Unit)

add(self, rhs) == Done(from(self.items \o rhs.items), Unit)

(***************************************************************************)
(* The SelectionList API as a state machine: one action per public method, *)
(* applied to one list.  A panic ends the process.                         *)
(***************************************************************************)
Items == 1..MaxItem

RECURSIVE SeqsOfLen(_)
SeqsOfLen(n) ==
    IF n = 0 THEN {<<>>}
    ELSE {Append(s, x) : s \in SeqsOfLen(n - 1), x \in Items}

SeqsUpTo(n) == UNION {SeqsOfLen(k) : k \in 0..n}

ListFrame == UNCHANGED <<overflow_checks, cryptoVars, appVars, steps>>

\* the cursor stays near the list or near usize::MAX (repeated select_prev
\* from a wrapped cursor would otherwise count down without end)
SelectionInWindow(l) ==
    IF IsSome(l.selection)
    THEN Unwrap(l.selection) <= MaxLen + MaxWalk \/ Unwrap(l.selection) >= USIZE_MAX - MaxWalk
    ELSE TRUE

Apply(name, a, r) ==
    /\ ~panicked
    /\ SelectionInWindow(r.self)
    /\ op' = name
    /\ args' = a
    /\ before' = list
    /\ list' = r.self
    /\ ret' = r.ret
    /\ panicked' = r.panic
    /\ ListFrame

PushItem == \E x \in Items : len(list) < MaxLen /\ Apply("push_item", <<x>>, push_item(list, x))

AddItem ==
    \E x \in Items, sel \in BOOLEAN :
        len(list) < MaxLen /\ Apply("add_item", <<x, sel>>, add_item(list, x, sel, overflow_checks))

InsertItem ==
    \E x \in Items, sel \in BOOLEAN, index \in {None} \cup {Some(i) : i \in 0..len(list)} :
        len(list) < MaxLen /\ Apply("insert_item", <<index, x, sel>>, insert_item(list, index, x, sel))

ClearItems == Apply("clear_items", <<>>, clear_items(list))

Select == \E index \in 0..MaxLen : Apply("select", <<index>>, select(list, index))

Deselect == Apply("deselect", <<>>, deselect(list))

NextIndex == Apply("next_index", <<>>, next_index(list, overflow_checks))

PrevIndex == Apply("prev_index", <<>>, prev_index(list, overflow_checks))

SelectNext == Apply("select_next", <<>>, select_next(list, overflow_checks))

SelectPrev == Apply("select_prev", <<>>, select_prev(list, overflow_checks))

ShiftNext == Apply("shift_next", <<>>, shift_next(list, overflow_checks))

ShiftPrev == Apply("shift_prev", <<>>, shift_prev(list))

PopSelected == Apply("pop_selected", <<>>, pop_selected(list))

Concat ==
    \E v \in SeqsUpTo(MaxLen), s \in {None} \cup {Some(i) : i \in 0..(MaxLen - 1)} :
        /\ len(list) + Len(v) <= MaxLen
        /\ IsSome(s) => Unwrap(s) < Len(v)
        /\ Apply("add", <<SelectionList(v, s)>>, add(list, SelectionList(v, s)))

InitList ==
    /\ list \in {from(v) : v \in SeqsUpTo(MaxLen)}
    /\ op = "new"
    /\ before = list
    /\ ret = Unit
    /\ panicked = FALSE
    /\ overflow_checks \in BOOLEAN
    /\ plaintext = <<>>
    /\ key = <<>>
    /\ blob = None
    /\ dkey = <<>>
    /\ derived = None
    /\ truncated = FALSE
    /\ NoApp
    /\ args = <<>>
    /\ steps = 0

NextList ==
    \/ PushItem
    \/ AddItem
    \/ InsertItem
    \/ ClearItems
    \/ Select
    \/ Deselect
    \/ NextIndex
    \/ PrevIndex
    \/ SelectNext
    \/ SelectPrev
    \/ ShiftNext
    \/ ShiftPrev
    \/ PopSelected
    \/ Concat

SpecList == InitList /\ [][NextList]_vars

(***************************************************************************)
(* Properties of SelectionList.                                            *)
(***************************************************************************)
ValidSelection(l) == ~IsSome(l.selection) \/ Unwrap(l.selection) < len(l)

\* C1: after any sequence of public operations the selection is None or an
\* index strictly less than len().
C1_SelectionInvariant == ValidSelection(list)

\* C2: no SelectionList operation aborts on a list reachable through the
\* public API, and select / shift_next / shift_prev fail only with the
\* IndexOutOfRange or NoSelection error value.
C2_NoAbort ==
    /\ ~panicked
    /\ ret.kind = "Err" => ret.err \in {"index out of range", "no item selected"}

\* What pop_selected is to do on a list l with selection i: remove and
\* return item i, keep the rest in order, and leave the cursor on None (list
\* now empty), on the new last index (i was last), and else on i.
PopPost(l, l2, r, p) ==
    IF IsSome(l.selection)
    THEN LET i == Unwrap(l.selection)
         IN  /\ ~p
             /\ i < len(l)
             /\ r = Opt(Some(l.items[i + 1]))
             /\ l2.items = SubSeq(l.items, 1, i) \o SubSeq(l.items, i + 2, len(l))
             /\ l2.selection = IF len(l) = 1 THEN None
                               ELSE IF i = len(l) - 1 THEN Some(len(l) - 2)
                               ELSE Some(i)
    ELSE ~p /\ r = Opt(None) /\ l2 = l

\* C8: pop_selected with selection i removes and returns item i and keeps the
\* other items in order; the selection becomes None / the new last index /
\* stays i; with no selection it returns None and changes nothing.
C8_PopSelected == [][op' = "pop_selected" => PopPost(list, list', ret', panicked')]_vars

Moved(v, i, j) ==
    LET rest == SubSeq(v, 1, i) \o SubSeq(v, i + 2, Len(v))
    IN  SubSeq(rest, 1, j) \o <<v[i + 1]>> \o SubSeq(rest, j + 1, Len(rest))

\* What a shift of the selected item i of l is to do, towards the next
\* (dir = 1) or the previous (dir = -1) position.
ShiftPost(l, l2, r, p, dir) ==
    LET i == Unwrap(l.selection)
        last == len(l) - 1
        atBoundary == IF dir = 1 THEN i = last ELSE i = 0
        target == IF atBoundary THEN (IF dir = 1 THEN 0 ELSE last) ELSE i + dir
    IN  /\ ~p
        /\ i < len(l)
        /\ l2.items = Moved(l.items, i, target)
        /\ l2.selection = Some(target)
        /\ l2.items[target + 1] = l.items[i + 1]
        /\ r = Ok(target)

\* C9: shift_next / shift_prev with selection i swap item i with its
\* neighbour, or at the boundary relocate it to the opposite end; the
\* selection follows the item and the returned index is the new selection.
C9_Shift ==
    [][/\ (op' = "shift_next" /\ IsSome(list.selection)
             => ShiftPost(list, list', ret', panicked', 1))
       /\ (op' = "shift_prev" /\ IsSome(list.selection)
             => ShiftPost(list, list', ret', panicked', -1))]_vars

\* C10: shift_next followed by shift_prev, and shift_prev followed by
\* shift_next, on a non-empty list with a selected index restore the
\* original item order and the original selection.
C10_ShiftInverse ==
    [][(/\ len(before) > 0
        /\ IsSome(before.selection)
        /\ \/ op = "shift_next" /\ op' = "shift_prev"
           \/ op = "shift_prev" /\ op' = "shift_next")
       => (~panicked' /\ list' = before)]_vars

(***************************************************************************)
(* Repeated navigation: select_next is applied to one list again and       *)
(* again; `before` keeps the list the walk started from and `steps` counts *)
(* the calls.                                                              *)
(***************************************************************************)
WalkStarts ==
    {SelectionList(v, sel) :
        v \in SeqsUpTo(MaxLen), sel \in {None} \cup {Some(i) : i \in 0..(MaxLen - 1)}}

CycleSelectNext ==
    \E r \in {select_next(list, overflow_checks)} :
        /\ ~panicked
        /\ steps < len(before)
        /\ op' = "select_next"
        /\ args' = <<>>
        /\ list' = r.self
        /\ ret' = r.ret
        /\ panicked' = r.panic
        /\ steps' = steps + 1
        /\ UNCHANGED <<before, overflow_checks, cryptoVars, appVars>>

InitCycle ==
    /\ list \in {l \in WalkStarts : ~IsSome(l.selection) \/ Unwrap(l.selection) < len(l)}
    /\ before = list
    /\ steps = 0
    /\ args = <<>>
    /\ op = "new"
    /\ ret = Unit
    /\ panicked = FALSE
    /\ overflow_checks \in BOOLEAN
    /\ plaintext = <<>>
    /\ key = <<>>
    /\ blob = None
    /\ dkey = <<>>
    /\ derived = None
    /\ truncated = FALSE
    /\ NoApp

NextCycle == CycleSelectNext

SpecCycle == InitCycle /\ [][NextCycle]_vars

\* C11: on a list of length n > 0, n calls of select_next from any starting
\* selection (a valid index, or none) bring the selection back to where it
\* started, with the items unchanged.
C11_CyclicNavigation ==
    (len(before) > 0 /\ steps = len(before)) => (~panicked /\ list = before)

\* C11 as amended: on a list of length n > 0, n calls of select_next from
\* any valid starting index bring the selection back to that index, with
\* the items unchanged.
C11_CyclicFromIndex ==
    (len(before) > 0 /\ IsSome(before.selection) /\ steps = len(before))
        => (~panicked /\ list = before)

\* a full round from the middle of a list of more than two items
C11_Witness ==
    /\ len(before) > 2
    /\ before.selection = Some(1)
    /\ steps = len(before)
    /\ list = before

\* where next_index / prev_index are to point
NextExpected(l) ==
    IF len(l) = 0 THEN None
    ELSE IF ~IsSome(l.selection) THEN Some(0)
    ELSE IF Unwrap(l.selection) >= len(l) - 1 THEN Some(0)
    ELSE Some(Unwrap(l.selection) + 1)

PrevExpected(l) ==
    IF len(l) = 0 THEN None
    ELSE IF ~IsSome(l.selection) THEN Some(len(l) - 1)
    ELSE IF Unwrap(l.selection) = 0 THEN Some(len(l) - 1)
    ELSE Some(Unwrap(l.selection) - 1)

\* C12: next_index / prev_index return None on an empty list, index 0 /
\* the last index when nothing is selected, and else the selection moved by
\* one with wrap-around, and change nothing; select_next / select_prev set
\* the selection to exactly that.
C12_Navigation ==
    [][/\ op' = "next_index"
            => (~panicked' /\ ret' = Opt(NextExpected(list)) /\ list' = list)
       /\ op' = "prev_index"
            => (~panicked' /\ ret' = Opt(PrevExpected(list)) /\ list' = list)
       /\ op' = "select_next"
            => (~panicked' /\ list' = [list EXCEPT !.selection = NextExpected(list)])
       /\ op' = "select_prev"
            => (~panicked' /\ list' = [list EXCEPT !.selection = PrevExpected(list)])]_vars

\* l2 is l with x put at position pos, the other items keeping their order
InsertedAt(l, l2, pos, x) ==
    /\ pos <= len(l)
    /\ len(l2) = len(l) + 1
    /\ l2.items[pos + 1] = x
    /\ \A k \in 1..len(l) : l2.items[IF k <= pos THEN k ELSE k + 1] = l.items[k]

\* C13: add_item(x, select) places x right after the selected item, or at
\* the end when nothing is selected or the last item is; the other items
\* keep their order; the selection becomes the index of x if select is true
\* and else still designates the same item.
C13_AddItem ==
    [][op' = "add_item" =>
          LET pos == IF IsSome(list.selection) THEN Unwrap(list.selection) + 1 ELSE len(list)
          IN  /\ ~panicked'
              /\ InsertedAt(list, list', pos, args'[1])
              /\ list'.selection = IF args'[2] THEN Some(pos) ELSE list.selection]_vars

\* C14: insert_item(index, x, select) with index in 0..=len places x at
\* that position (0 when index is None) and keeps the order of the other
\* items; the selection becomes that position if select is true and else
\* keeps its index.
C14_InsertItem ==
    [][op' = "insert_item" =>
          LET pos == IF IsSome(args'[1]) THEN Unwrap(args'[1]) ELSE 0
          IN  /\ ~panicked'
              /\ InsertedAt(list, list', pos, args'[2])
              /\ list'.selection = IF args'[3] THEN Some(pos) ELSE list.selection]_vars

\* an item was inserted, unselected, in front of the selected one
C14_Witness ==
    /\ op = "insert_item"
    /\ args[3] = FALSE
    /\ IsSome(args[1])
    /\ IsSome(before.selection)
    /\ Unwrap(args[1]) <= Unwrap(before.selection)
    /\ Unwrap(args[1]) > 0
    /\ list.selection = before.selection

\* C15: select(index) with index >= len() returns the index-out-of-range
\* error and changes neither items nor selection; with index < len() it
\* succeeds and the selection becomes index.
C15_Select ==
    [][op' = "select" =>
          /\ ~panicked'
          /\ IF args'[1] >= len(list)
             THEN ret' = Err("index out of range") /\ list' = list
             ELSE ret'.kind = "Ok" /\ list' = [list EXCEPT !.selection = Some(args'[1])]]_vars

\* select was refused at index = len() on a list with a selection
C15_Witness ==
    /\ op = "select"
    /\ args[1] = len(before)
    /\ len(before) > 0
    /\ IsSome(before.selection)
    /\ ret.kind = "Err"
    /\ list = before

\* C16: shift_next and shift_prev with nothing selected return the
\* no-selection error and leave the item order and the selection unchanged.
C16_ShiftUnselected ==
    [][(op' \in {"shift_next", "shift_prev"} /\ ~IsSome(list.selection))
          => (~panicked' /\ ret' = Err("no item selected") /\ list' = list)]_vars

\* a shift was refused on a list of several items, none selected
C16_Witness ==
    /\ op \in {"shift_next", "shift_prev"}
    /\ len(before) > 1
    /\ ~IsSome(before.selection)
    /\ ret = Err("no item selected")

\* C17: a + b has length a.len() + b.len(), a's items in order followed by
\* b's items in order, and no selection, whatever a and b had selected.
C17_Concat ==
    [][op' = "add" =>
          /\ ~panicked'
          /\ len(list') = len(list) + len(args'[1])
          /\ list'.items = list.items \o args'[1].items
          /\ list'.selection = None]_vars

\* two non-empty lists, each with a selection, were concatenated
C17_Witness ==
    /\ op = "add"
    /\ len(before) > 0
    /\ len(args[1]) > 0
    /\ IsSome(before.selection)
    /\ IsSome(args[1].selection)
    /\ list.selection = None

(***************************************************************************)
(* Crypto envelope  (src/crypto.rs)                                        *)
(*                                                                         *)
(* Byte buffers are sequences over 0..255 and a password is the sequence   *)
(* of its bytes.  AES-256-GCM is the library's; it is modelled as a keyed  *)
(* stream cipher with a 16-byte tag over key, nonce and ciphertext, so     *)
(* that opening a sealed buffer needs the same 32-byte key and nonce.      *)
(***************************************************************************)
NONCE_SIZE == 12
KEY_SIZE == 32
TAG_SIZE == 16

Rep(x, n) == [i \in 1..n |-> x]

\* keyed mixing of a byte string (stands for the block cipher and GHASH),
\* computed over blocks of eight bytes
DIGEST_MOD == 524287
Weight(i, c) == (i * i * c + i + c) % DIGEST_MOD
Term(s, i, c) == IF i <= Len(s) THEN (s[i] + 1) * Weight(i, c) ELSE 0
Block(s, lo, c) ==
    (Term(s, lo, c) + Term(s, lo + 1, c) + Term(s, lo + 2, c) + Term(s, lo + 3, c)
        + Term(s, lo + 4, c) + Term(s, lo + 5, c) + Term(s, lo + 6, c) + Term(s, lo + 7, c))
        % DIGEST_MOD

RECURSIVE SumRange(_, _, _, _)
SumRange(s, lo, hi, c) ==
    IF lo > hi THEN 0
    ELSE IF lo = hi THEN Block(s, 8 * lo - 7, c)
    ELSE LET mid == (lo + hi) \div 2
         IN  (SumRange(s, lo, mid, c) + SumRange(s, mid + 1, hi, c)) % DIGEST_MOD

Digest(s, c) == (SumRange(s, 1, (Len(s) + 7) \div 8, c) + 257 * Len(s)) % DIGEST_MOD

KeyStream(seed, i) == ((seed % 65536) * i + (seed \div 256) + i) % 256

Tag(k, nonce, ct) ==
    LET h == Digest(k \o nonce \o ct, 7)
    IN  [j \in 1..TAG_SIZE |->
            IF j = 1 THEN h % 256
            ELSE IF j = 2 THEN (h \div 256) % 256
            ELSE IF j = 3 THEN h \div 65536
            ELSE (h + j) % 256]

\* Aes256Gcm::encrypt: ciphertext followed by the tag
AeadEncrypt(k, nonce, pt) ==
    LET seed == Digest(k \o nonce, 31)
        ct == [i \in 1..Len(pt) |-> (pt[i] + KeyStream(seed, i)) % 256]
    IN  ct \o Tag(k, nonce, ct)

\* Aes256Gcm::decrypt: the plaintext, or an error when the tag does not verify
AeadDecrypt(k, nonce, body) ==
    IF Len(body) < TAG_SIZE THEN Err("aead::Error")
    ELSE LET ct == SubSeq(body, 1, Len(body) - TAG_SIZE)
             tag == SubSeq(body, Len(body) - TAG_SIZE + 1, Len(body))
             seed == Digest(k \o nonce, 31)
         IN  IF tag # Tag(k, nonce, ct) THEN Err("aead::Error")
             ELSE Ok([i \in 1..Len(ct) |-> (ct[i] + 256 - KeyStream(seed, i)) % 256])

\* get_cipher: the 32-byte key of a password; Vec::splice panics when the
\* range 0..key.len() ends beyond the 32-byte buffer
get_cipher(k) ==
    LET fixed_key == Rep(0, KEY_SIZE)
    IN  IF Len(k) > Len(fixed_key) THEN Aborted
        ELSE LET spliced == k \o SubSeq(fixed_key, Len(k) + 1, Len(fixed_key))
             IN  IF Len(spliced) # KEY_SIZE THEN Err("incorrect key size")
                 ELSE Ok(spliced)

encrypt(pt, k, nonce_data) ==
    LET cipher == get_cipher(k)
    IN  IF cipher.kind # "Ok" THEN cipher
        ELSE Ok(AeadEncrypt(Unwrap(cipher.val), nonce_data, pt) \o nonce_data)

decrypt(ciphertext, k) ==
    LET cipher == get_cipher(k)
        split_at == IF Len(ciphertext) >= NONCE_SIZE THEN Len(ciphertext) - NONCE_SIZE ELSE 0
    IN  IF cipher.kind # "Ok" THEN cipher
        ELSE IF ~(split_at > 0) THEN Err("file too small to decrypt")
        ELSE LET body == SubSeq(ciphertext, 1, split_at)
                 nonce_data == SubSeq(ciphertext, split_at + 1, Len(ciphertext))
                 opened == AeadDecrypt(Unwrap(cipher.val), nonce_data, body)
             IN  IF opened.kind = "Ok" THEN opened ELSE Err("decryption failure")

(***************************************************************************)
(* Domain model  (src/app/data.rs).  Strings are sequences of bytes.       *)
(***************************************************************************)
DEFAULT_WIDTH_PERCENT == 40

STR_NEW_JOURNAL == <<78, 101, 119, 32, 74, 111, 117, 114, 110, 97, 108>>
STR_NEW_PROJECT == <<78, 101, 119, 32, 80, 114, 111, 106, 101, 99, 116>>
STR_TASKS == <<84, 97, 115, 107, 115>>
STR_CREATED_AT == <<50, 48, 50, 48, 45, 48, 50, 45, 48, 50, 32, 49, 50, 58, 48, 48, 58, 48, 48>>

Task_new(desc) == [desc |-> desc, created_at |-> STR_CREATED_AT, completed_at |-> None]

SubProject_default == [name |-> STR_TASKS, tasks |-> default]
SubProject_new(name) == [name |-> name, tasks |-> default]

Project_default ==
    [name |-> STR_NEW_PROJECT,
     password |-> <<>>,
     subprojects |-> from(<<SubProject_default>>),
     prompt_request |-> None,
     focused_width_percent |-> DEFAULT_WIDTH_PERCENT,
     split_vertical |-> FALSE]
Project_new(name) == [Project_default EXCEPT !.name = name]

\* Clone for Project: the prompt and its request are not copied
Project_clone(p) == [p EXCEPT !.prompt_request = None]

Journal_default ==
    [name |-> STR_NEW_JOURNAL,
     password |-> <<>>,
     projects |-> select_next(from(<<Project_default>>), TRUE).self]
Journal_new(name) == [Journal_default EXCEPT !.name = name]

\* Clone for Journal (derived): clones every project
Journal_clone(j) ==
    [j EXCEPT !.projects.items = [i \in 1..Len(@) |-> Project_clone(@[i])]]

Journal_from(project) ==
    [name |-> project.name, password |-> project.password, projects |-> from(<<project>>)]

\* a merge that takes the password of the journal merged in
Journal_add_rhs_password(self, rhs) ==
    [name |-> self.name,
     password |-> rhs.password,
     projects |-> add(self.projects, rhs.projects).self]

\* impl Add for Journal
Journal_add(self, rhs) ==
    [name |-> self.name,
     password |-> self.password,
     projects |-> add(self.projects, rhs.projects).self]

\* Journal::project / Project::subproject / SubProject::task
project(j) == get_item(j.projects, None)
subproject(p) == get_item(p.subprojects, None)
task(sp) == get_item(sp.tasks, None)

(***************************************************************************)
(* bincode (fixed-width little-endian integers, u64 lengths) over the      *)
(* fields serde derives for each struct; #[serde(skip)] fields are left    *)
(* out and come back as their defaults.                                    *)
(***************************************************************************)
ser_u64(n) ==
    <<n % 256, (n \div 256) % 256, (n \div 65536) % 256, n \div 16777216, 0, 0, 0, 0>>
ser_u16(n) == <<n % 256, n \div 256>>
ser_bool(v) == <<IF v THEN 1 ELSE 0>>
ser_string(str) == ser_u64(Len(str)) \o str
ser_opt_usize(o) == IF IsSome(o) THEN <<1>> \o ser_u64(Unwrap(o)) ELSE <<0>>
ser_opt_string(o) == IF IsSome(o) THEN <<1>> \o ser_string(Unwrap(o)) ELSE <<0>>

ser_task(t) == ser_string(t.desc) \o ser_string(t.created_at) \o ser_opt_string(t.completed_at)

RECURSIVE ser_tasks(_, _)
ser_tasks(v, i) == IF i > Len(v) THEN <<>> ELSE ser_task(v[i]) \o ser_tasks(v, i + 1)

ser_subproject(sp) ==
    ser_string(sp.name) \o ser_u64(len(sp.tasks)) \o ser_tasks(sp.tasks.items, 1)
        \o ser_opt_usize(sp.tasks.selection)

RECURSIVE ser_subprojects(_, _)
ser_subprojects(v, i) ==
    IF i > Len(v) THEN <<>> ELSE ser_subproject(v[i]) \o ser_subprojects(v, i + 1)

ser_project(p) ==
    ser_string(p.name) \o ser_string(p.password)
        \o ser_u64(len(p.subprojects)) \o ser_subprojects(p.subprojects.items, 1)
        \o ser_opt_usize(p.subprojects.selection)
        \o ser_u16(p.focused_width_percent) \o ser_bool(p.split_vertical)

RECURSIVE ser_projects(_, _)
ser_projects(v, i) == IF i > Len(v) THEN <<>> ELSE ser_project(v[i]) \o ser_projects(v, i + 1)

\* bincode::serialize(&journal)
serialize(j) ==
    ser_string(j.name) \o ser_string(j.password)
        \o ser_u64(len(j.projects)) \o ser_projects(j.projects.items, 1)
        \o ser_opt_usize(j.projects.selection)

\* A parse step yields the value and the position after it, or fails.
PFail == [ok |-> FALSE, val |-> <<>>, pos |-> 0]
PDone(v, p) == [ok |-> TRUE, val |-> <<v>>, pos |-> p]
PVal(r) == r.val[1]

\* evaluate e once and hand its value to F
Bind(e, F(_)) == CHOOSE r \in {F(x) : x \in {e}} : TRUE

de_u8(b, p) == IF p > Len(b) THEN PFail ELSE PDone(b[p], p + 1)

de_u64(b, p) ==
    IF p + 7 > Len(b) THEN PFail
    ELSE IF b[p + 3] >= 128 \/ \E k \in 4..7 : b[p + k] # 0 THEN PFail
    ELSE PDone(b[p] + 256 * b[p + 1] + 65536 * b[p + 2] + 16777216 * b[p + 3], p + 8)

de_u16(b, p) == IF p + 1 > Len(b) THEN PFail ELSE PDone(b[p] + 256 * b[p + 1], p + 2)

de_bool(b, p) ==
    IF p > Len(b) \/ b[p] \notin {0, 1} THEN PFail ELSE PDone(b[p] = 1, p + 1)

de_string(b, p) ==
    Bind(de_u64(b, p), LAMBDA n :
        IF ~n.ok THEN PFail
        ELSE IF n.pos + PVal(n) - 1 > Len(b) THEN PFail
        ELSE PDone(SubSeq(b, n.pos, n.pos + PVal(n) - 1), n.pos + PVal(n)))

de_opt_usize(b, p) ==
    Bind(de_u8(b, p), LAMBDA t :
        IF ~t.ok \/ PVal(t) \notin {0, 1} THEN PFail
        ELSE IF PVal(t) = 0 THEN PDone(None, t.pos)
        ELSE Bind(de_u64(b, t.pos), LAMBDA v :
                 IF ~v.ok THEN PFail ELSE PDone(Some(PVal(v)), v.pos)))

de_opt_string(b, p) ==
    Bind(de_u8(b, p), LAMBDA t :
        IF ~t.ok \/ PVal(t) \notin {0, 1} THEN PFail
        ELSE IF PVal(t) = 0 THEN PDone(None, t.pos)
        ELSE Bind(de_string(b, t.pos), LAMBDA v :
                 IF ~v.ok THEN PFail ELSE PDone(Some(PVal(v)), v.pos)))

de_task(b, p) ==
    Bind(de_string(b, p), LAMBDA d :
        IF ~d.ok THEN PFail
        ELSE Bind(de_string(b, d.pos), LAMBDA c :
        IF ~c.ok THEN PFail
        ELSE Bind(de_opt_string(b, c.pos), LAMBDA f :
        IF ~f.ok THEN PFail
        ELSE PDone([desc |-> PVal(d), created_at |-> PVal(c), completed_at |-> PVal(f)],
                   f.pos))))

RECURSIVE de_tasks(_, _, _)
de_tasks(b, p, n) ==
    IF n = 0 THEN PDone(<<>>, p)
    ELSE Bind(de_task(b, p), LAMBDA t :
        IF ~t.ok THEN PFail
        ELSE Bind(de_tasks(b, t.pos, n - 1), LAMBDA rest :
        IF ~rest.ok THEN PFail ELSE PDone(<<PVal(t)>> \o PVal(rest), rest.pos)))

de_subproject(b, p) ==
    Bind(de_string(b, p), LAMBDA nm :
        IF ~nm.ok THEN PFail
        ELSE Bind(de_u64(b, nm.pos), LAMBDA n :
        IF ~n.ok THEN PFail
        ELSE Bind(de_tasks(b, n.pos, PVal(n)), LAMBDA its :
        IF ~its.ok THEN PFail
        ELSE Bind(de_opt_usize(b, its.pos), LAMBDA sel :
        IF ~sel.ok THEN PFail
        ELSE PDone([name |-> PVal(nm), tasks |-> SelectionList(PVal(its), PVal(sel))],
                   sel.pos)))))

RECURSIVE de_subprojects(_, _, _)
de_subprojects(b, p, n) ==
    IF n = 0 THEN PDone(<<>>, p)
    ELSE Bind(de_subproject(b, p), LAMBDA t :
        IF ~t.ok THEN PFail
        ELSE Bind(de_subprojects(b, t.pos, n - 1), LAMBDA rest :
        IF ~rest.ok THEN PFail ELSE PDone(<<PVal(t)>> \o PVal(rest), rest.pos)))

de_project(b, p) ==
    Bind(de_string(b, p), LAMBDA nm :
        IF ~nm.ok THEN PFail
        ELSE Bind(de_string(b, nm.pos), LAMBDA pw :
        IF ~pw.ok THEN PFail
        ELSE Bind(de_u64(b, pw.pos), LAMBDA n :
        IF ~n.ok THEN PFail
        ELSE Bind(de_subprojects(b, n.pos, PVal(n)), LAMBDA its :
        IF ~its.ok THEN PFail
        ELSE Bind(de_opt_usize(b, its.pos), LAMBDA sel :
        IF ~sel.ok THEN PFail
        ELSE Bind(de_u16(b, sel.pos), LAMBDA w :
        IF ~w.ok THEN PFail
        ELSE Bind(de_bool(b, w.pos), LAMBDA sv :
        IF ~sv.ok THEN PFail
        ELSE PDone([name |-> PVal(nm),
                    password |-> PVal(pw),
                    subprojects |-> SelectionList(PVal(its), PVal(sel)),
                    prompt_request |-> None,
                    focused_width_percent |-> PVal(w),
                    split_vertical |-> PVal(sv)], sv.pos))))))))

RECURSIVE de_projects(_, _, _)
de_projects(b, p, n) ==
    IF n = 0 THEN PDone(<<>>, p)
    ELSE Bind(de_project(b, p), LAMBDA t :
        IF ~t.ok THEN PFail
        ELSE Bind(de_projects(b, t.pos, n - 1), LAMBDA rest :
        IF ~rest.ok THEN PFail ELSE PDone(<<PVal(t)>> \o PVal(rest), rest.pos)))

\* bincode::deserialize::<Journal>(bytes); trailing bytes are allowed
deserialize(bytes) ==
    Bind(bytes, LAMBDA b :
        Bind(de_string(b, 1), LAMBDA nm :
        IF ~nm.ok THEN Err("bincode error")
        ELSE Bind(de_string(b, nm.pos), LAMBDA pw :
        IF ~pw.ok THEN Err("bincode error")
        ELSE Bind(de_u64(b, pw.pos), LAMBDA n :
        IF ~n.ok THEN Err("bincode error")
        ELSE Bind(de_projects(b, n.pos, PVal(n)), LAMBDA its :
        IF ~its.ok THEN Err("bincode error")
        ELSE Bind(de_opt_usize(b, its.pos), LAMBDA sel :
        IF ~sel.ok THEN Err("bincode error")
        ELSE Ok([name |-> PVal(nm),
                 password |-> PVal(pw),
                 projects |-> SelectionList(PVal(its), PVal(sel))])))))))

(***************************************************************************)
(* The crypto envelope as a state machine: one buffer is encrypted under   *)
(* one password, the blob may be cut short, and decrypt is called on it    *)
(* with any password.                                                      *)
(***************************************************************************)
PlainBytes == {0, 1, 255}
PwBytes == {0, 1}

RECURSIVE BytesOfLen(_, _)
BytesOfLen(B, n) ==
    IF n = 0 THEN {<<>>}
    ELSE {Append(s, x) : s \in BytesOfLen(B, n - 1), x \in B}

BytesUpTo(B, n) == UNION {BytesOfLen(B, k) : k \in 0..n}

Passwords ==
    BytesUpTo(PwBytes, MaxShortPw) \cup {Rep(1, n) : n \in (KEY_SIZE - 1)..(KEY_SIZE + PwExtra)}

Nonces == {Rep(v, NONCE_SIZE) : v \in 0..(NumNonces - 1)}

CryptoFrame == UNCHANGED <<overflow_checks, list, before, appVars, args, steps>>

CipherOf(k) == LET c == get_cipher(k) IN IF c.kind = "Ok" THEN Some(Unwrap(c.val)) ELSE None

Encrypt ==
    \E nonce_data \in Nonces :
        LET r == encrypt(plaintext, key, nonce_data)
        IN  /\ ~panicked
            /\ ~IsSome(blob)
            /\ op' = "encrypt"
            /\ ret' = r
            /\ panicked' = (r.kind = "panic")
            /\ blob' = IF r.kind = "Ok" THEN Some(Unwrap(r.val)) ELSE blob
            /\ dkey' = key
            /\ derived' = CipherOf(key)
            /\ UNCHANGED <<plaintext, key, truncated>>
            /\ CryptoFrame

Truncate ==
    \E n \in {0, 1, NONCE_SIZE - 1, NONCE_SIZE, NONCE_SIZE + 1, NONCE_SIZE + TAG_SIZE - 1} :
        /\ ~panicked
        /\ IsSome(blob)
        /\ n < Len(Unwrap(blob))
        /\ blob' = Some(SubSeq(Unwrap(blob), 1, n))
        /\ truncated' = TRUE
        /\ op' = "truncate"
        /\ ret' = Unit
        /\ UNCHANGED <<plaintext, key, dkey, derived, panicked>>
        /\ CryptoFrame

Decrypt ==
    \E k \in Passwords :
        LET r == decrypt(Unwrap(blob), k)
        IN  /\ ~panicked
            /\ IsSome(blob)
            /\ op' = "decrypt"
            /\ ret' = r
            /\ panicked' = (r.kind = "panic")
            /\ dkey' = k
            /\ derived' = CipherOf(k)
            /\ UNCHANGED <<plaintext, key, blob, truncated>>
            /\ CryptoFrame

InitCrypto ==
    /\ plaintext \in BytesUpTo(PlainBytes, MaxPlain)
    /\ key \in Passwords
    /\ blob = None
    /\ dkey = <<>>
    /\ derived = None
    /\ truncated = FALSE
    /\ op = "new"
    /\ ret = Unit
    /\ panicked = FALSE
    /\ overflow_checks = TRUE
    /\ list = default
    /\ before = default
    /\ NoApp
    /\ args = <<>>
    /\ steps = 0

NextCrypto == Encrypt \/ Truncate \/ Decrypt

SpecCrypto == InitCrypto /\ [][NextCrypto]_vars

\* C3: for every byte buffer p (the empty one included) and every password
\* k, encrypt(p, k) succeeds and decrypt(encrypt(p, k), k) returns exactly p.
C3_RoundTrip ==
    /\ op = "encrypt" => ret.kind = "Ok"
    /\ (op = "decrypt" /\ dkey = key /\ ~truncated) => ret = Ok(plaintext)

ZeroPadOrTruncate(k) == [i \in 1..KEY_SIZE |-> IF i <= Len(k) THEN k[i] ELSE 0]

\* C4: key derivation is total and yields exactly 32 bytes: the password
\* zero-padded on the right when shorter, its first 32 bytes when longer,
\* without error or abort.
C4_KeyDerivation ==
    op \in {"encrypt", "decrypt"} =>
        /\ ~panicked
        /\ derived = Some(ZeroPadOrTruncate(dkey))
        /\ Len(Unwrap(derived)) = KEY_SIZE

\* what decrypt owes on a blob longer than the nonce: the trailing 12 bytes
\* are the nonce, the rest is ciphertext and tag
SplitAndOpen(b, k) ==
    Bind(AeadDecrypt(ZeroPadOrTruncate(k), SubSeq(b, Len(b) - NONCE_SIZE + 1, Len(b)),
                     SubSeq(b, 1, Len(b) - NONCE_SIZE)),
         LAMBDA opened : IF opened.kind = "Ok" THEN opened ELSE Err("decryption failure"))

\* C24: decrypt on a blob of at most 12 bytes fails with "file too small to
\* decrypt" for every password, and on a longer blob it takes exactly the
\* trailing 12 bytes as the nonce and the rest as ciphertext and tag.
C24_DecryptShortBlob ==
    op = "decrypt" =>
        IF Len(Unwrap(blob)) <= NONCE_SIZE
        THEN ret = Err("file too small to decrypt")
        ELSE ret = SplitAndOpen(Unwrap(blob), dkey)

(***************************************************************************)
(* The data directory and std::fs.  A path is the file name joined to the  *)
(* data directory; joining the empty name gives the directory itself.      *)
(***************************************************************************)
FILE_NEW_PROJECT == <<110, 101, 119, 95, 112, 114, 111, 106, 101, 99, 116>>
Texts == {<<>>, <<97>>}
FileNames == Texts \cup {FILE_NEW_PROJECT}

IsDir(path) == path = <<>>

\* Path::exists
exists(fs, path) == IsDir(path) \/ IsSome(fs[path])

\* what the environment lets a read or a write do
ReadOutcomes == {"ok", "error"}
WriteOutcomes == {"ok", "denied", "partial"}

\* fs::read
fs_read(fs, path, io) ==
    IF IsDir(path) \/ ~IsSome(fs[path]) \/ io = "error" THEN Err("io error")
    ELSE Ok(Unwrap(fs[path]))

\* fs::write: create or truncate the file, then write all bytes
fs_write(fs, path, data, io) ==
    IF IsDir(path) \/ io = "denied" THEN [fs |-> fs, ret |-> Err("io error")]
    ELSE IF io = "partial" THEN [fs |-> [fs EXCEPT ![path] = Some(<<>>)], ret |-> Err("io error")]
    ELSE [fs |-> [fs EXCEPT ![path] = Some(data)], ret |-> Unit]

\* DataSerialize::save_encrypt
save_encrypt(self, path, k, nonce_data, io, fs) ==
    LET encoded == serialize(self)
        encrypted == encrypt(encoded, k, nonce_data)
    IN  IF encrypted.kind = "panic" THEN [fs |-> fs, ret |-> Aborted, panic |-> TRUE]
        ELSE IF encrypted.kind = "Err" THEN [fs |-> fs, ret |-> encrypted, panic |-> FALSE]
        ELSE LET w == fs_write(fs, path, Unwrap(encrypted.val), io)
             IN  [fs |-> w.fs, ret |-> w.ret, panic |-> FALSE]

\* DataDeserialize::load_decrypt
load_decrypt(path, k, io, fs) ==
    LET encrypted == fs_read(fs, path, io)
    IN  IF encrypted.kind # "Ok" THEN encrypted
        ELSE LET decrypted == decrypt(Unwrap(encrypted.val), k)
             IN  IF decrypted.kind # "Ok" THEN decrypted
                 ELSE deserialize(Unwrap(decrypted.val))

(***************************************************************************)
(* Persistence as a state machine: one journal is saved under one password *)
(* to one path, the file may then be cut short by another program, and it  *)
(* is loaded back under any password.                                      *)
(***************************************************************************)
MaxProjects == 2

SampleTasks ==
    <<Task_new(<<116>>), [Task_new(<<117>>) EXCEPT !.completed_at = Some(STR_CREATED_AT)]>>

SampleSubProjects ==
    <<SubProject_default, [name |-> <<115>>, tasks |-> SelectionList(SampleTasks, Some(1))]>>

SampleProjects ==
    {Project_default,
     [name |-> <<112>>,
      password |-> <<1>>,
      subprojects |-> SelectionList(SampleSubProjects, Some(1)),
      prompt_request |-> Some("AddTask"),
      focused_width_percent |-> DEFAULT_WIDTH_PERCENT + 5,
      split_vertical |-> TRUE]}

ProjectLists ==
    UNION {{SelectionList(v, sel) : sel \in {None} \cup {Some(i) : i \in 0..(Len(v) - 1)}} :
           v \in UNION {[1..n -> SampleProjects] : n \in 0..MaxProjects}}

\* passwords of the persistence runs: empty, short, short with a trailing
\* NUL, and longer than the key
PersistKeys == {<<>>, <<1>>, <<1, 0>>, Rep(1, KEY_SIZE + PwExtra)}

SampleJournals ==
    {[name |-> STR_NEW_JOURNAL, password |-> pw, projects |-> ps] :
        pw \in {<<>>, <<1>>}, ps \in ProjectLists}

\* a file left by an earlier run
OldFile == Unwrap(encrypt(serialize(Journal_default), <<>>, Rep(0, NONCE_SIZE)).val)

\* a file of the earlier format: one Project saved by Project::save_encrypt
\* under the empty password
ProjectFile == Unwrap(encrypt(ser_project(Project_default), <<>>, Rep(0, NONCE_SIZE)).val)

\* bincode::deserialize::<Project>(bytes)
deserialize_project(bytes) ==
    Bind(de_project(bytes, 1), LAMBDA r : IF r.ok THEN Ok(PVal(r)) ELSE Err("bincode error"))

PersistFrame ==
    UNCHANGED <<overflow_checks, list, before, plaintext, blob, derived,
                journal, key, filepath, prompt_request, file_request, args, steps>>

Save ==
    \E nonce_data \in Nonces, io \in WriteOutcomes :
        LET r == save_encrypt(journal, filepath, key, nonce_data, io, files)
        IN  /\ ~panicked
            /\ op = "new"
            /\ op' = "save"
            /\ ret' = r.ret
            /\ panicked' = r.panic
            /\ files' = r.fs
            /\ dkey' = key
            /\ UNCHANGED truncated
            /\ PersistFrame

Load ==
    \E k \in PersistKeys, io \in ReadOutcomes :
        LET r == load_decrypt(filepath, k, io, files)
        IN  /\ ~panicked
            /\ op # "load"
            /\ op' = "load"
            /\ ret' = r
            /\ panicked' = (r.kind = "panic")
            /\ dkey' = k
            /\ UNCHANGED <<files, truncated>>
            /\ PersistFrame

\* another program cuts the file short
Corrupt ==
    /\ ~panicked
    /\ op = "save"
    /\ ~IsDir(filepath)
    /\ IsSome(files[filepath])
    /\ \E n \in {NONCE_SIZE, Len(Unwrap(files[filepath])) - 1} :
           /\ n >= 0
           /\ n < Len(Unwrap(files[filepath]))
           /\ files' = [files EXCEPT ![filepath] = Some(SubSeq(Unwrap(@), 1, n))]
    /\ truncated' = TRUE
    /\ op' = "corrupt"
    /\ UNCHANGED <<ret, dkey, panicked>>
    /\ PersistFrame

InitPersist ==
    /\ journal \in SampleJournals
    /\ key \in PersistKeys
    /\ filepath \in Texts
    /\ files \in {[n \in FileNames |-> None],
                  [n \in FileNames |-> IF n = <<97>> THEN Some(OldFile) ELSE None],
                  [n \in FileNames |-> IF n = <<97>> THEN Some(ProjectFile) ELSE None]}
    /\ dkey = <<>>
    /\ truncated = FALSE
    /\ op = "new"
    /\ ret = Unit
    /\ panicked = FALSE
    /\ overflow_checks = TRUE
    /\ list = default
    /\ before = default
    /\ plaintext = <<>>
    /\ blob = None
    /\ derived = None
    /\ prompt_request = None
    /\ file_request = None
    /\ args = <<>>
    /\ steps = 0

NextPersist == Save \/ Load \/ Corrupt

SpecPersist == InitPersist /\ [][NextPersist]_vars

\* the fields of a journal that are written to the file
Persisted(j) == Journal_clone(j)

\* C5: for every journal j and password k, save(j, path, k) followed by
\* load(path, k) succeeds and returns a journal equal to j in name, password,
\* the order of projects / sub-projects / tasks, the selection of every list
\* at every level, and the persisted UI-hint fields.
C5_PersistRoundTrip ==
    [][/\ op' = "save" => ~panicked'
       /\ (op = "save" /\ ret = Unit /\ op' = "load" /\ dkey' = key /\ ret'.err # "io error")
              => ret' = Ok(Persisted(journal))]_vars

\* C6: loading a file that was saved under password k with any password k'
\* different from k fails with a decryption failure and returns no journal.
C6_WrongPassword ==
    [][(op = "save" /\ ret = Unit /\ op' = "load" /\ dkey' # key /\ ret'.err # "io error")
           => ret' = Err("decryption failure")]_vars

\* what the file at the current path decrypts to under the password of the
\* last load
LoadedPlain == decrypt(Unwrap(files[filepath]), dkey)

\* C22: when the file decrypts correctly but does not deserialize as a
\* Journal, the load retries it as a single Project and, if that succeeds,
\* the load succeeds with a journal holding exactly that project.
C22_ProjectFallback ==
    (/\ op = "load"
     /\ ret.err # "io error"
     /\ exists(files, filepath) /\ ~IsDir(filepath)
     /\ LoadedPlain.kind = "Ok"
     /\ deserialize(Unwrap(LoadedPlain.val)).kind = "Err"
     /\ deserialize_project(Unwrap(LoadedPlain.val)).kind = "Ok")
        => /\ ret.kind = "Ok"
           /\ Unwrap(ret.val).projects.items =
                  <<Unwrap(deserialize_project(Unwrap(LoadedPlain.val)).val)>>

(***************************************************************************)
(* Journal merge as a state machine: the journal in hand is merged with    *)
(* another journal, again and again.                                       *)
(***************************************************************************)
STR_OTHER_JOURNAL == <<98>>

\* the journals merged in: the sample journals under either name
MergeOperands ==
    {[j EXCEPT !.name = n] : j \in SampleJournals, n \in {STR_NEW_JOURNAL, STR_OTHER_JOURNAL}}

JournalAdd ==
    \E rhs \in MergeOperands :
        /\ len(journal.projects) + len(rhs.projects) <= 2 * MaxProjects
        /\ journal' = Journal_add(journal, rhs)
        /\ args' = <<rhs>>
        /\ op' = "journal_add"
        /\ UNCHANGED <<list, before, ret, panicked, overflow_checks, cryptoVars,
                       filepath, files, prompt_request, file_request, steps>>

InitMerge ==
    /\ journal \in SampleJournals
    /\ filepath = <<>>
    /\ files = <<>>
    /\ prompt_request = None
    /\ file_request = None
    /\ args = <<>>
    /\ steps = 0
    /\ op = "new"
    /\ ret = Unit
    /\ panicked = FALSE
    /\ overflow_checks = TRUE
    /\ list = default
    /\ before = default
    /\ plaintext = <<>>
    /\ key = <<>>
    /\ blob = None
    /\ dkey = <<>>
    /\ derived = None
    /\ truncated = FALSE

NextMerge == JournalAdd

SpecMerge == InitMerge /\ [][NextMerge]_vars

\* C18: the merge a + b of two journals has a's name and password and, as
\* projects, a's projects followed by b's projects in their original order,
\* with no project selected.
C18_JournalMerge ==
    [][op' = "journal_add" =>
          /\ journal'.name = journal.name
          /\ journal'.password = journal.password
          /\ journal'.projects.items = journal.projects.items \o args'[1].projects.items
          /\ journal'.projects.selection = None]_vars

\* a journal with projects took in a journal of another name and password
\* that had a project selected
C18_Witness ==
    /\ op = "journal_add"
    /\ args[1].name # journal.name
    /\ args[1].password # journal.password
    /\ IsSome(args[1].projects.selection)
    /\ len(journal.projects) > len(args[1].projects)
    /\ journal.projects.selection = None

(***************************************************************************)
(* The application (src/app/data.rs, src/ui/events.rs).                    *)
(***************************************************************************)
\* what the user types into a prompt
PasswordTexts == {<<>>, <<97>>}
ProjectTexts == {<<112>>}
FileTexts == {<<>>, FILE_NEW_PROJECT}

\* the nonce of the application's saves
AppNonces == {Rep(0, NONCE_SIZE)}

NewJournal == [kind |-> "NewJournal", name |-> <<>>]
LoadFile(name) == [kind |-> "LoadFile", name |-> name]
MergeFile(name) == [kind |-> "MergeFile", name |-> name]

\* the selected project with p in its place
with_project(j, p) == [j EXCEPT !.projects.items[Unwrap(j.projects.selection) + 1] = p]

\* the selected sub-project of p with sp in its place, the selected task of
\* sp with t in its place
with_subproject(p, sp) == [p EXCEPT !.subprojects.items[Unwrap(p.subprojects.selection) + 1] = sp]
with_task(sp, t) == [sp EXCEPT !.tasks.items[Unwrap(sp.tasks.selection) + 1] = t]

\* (100. / len as f32).max(5.) as u16, then min(95).max(min_width)
bind_focus_size(p) ==
    LET n == len(p.subprojects)
        min_width == IF n = 0 THEN 65535 ELSE IF 100 \div n > 5 THEN 100 \div n ELSE 5
        capped == IF p.focused_width_percent < 95 THEN p.focused_width_percent ELSE 95
    IN  [p EXCEPT !.focused_width_percent = IF capped > min_width THEN capped ELSE min_width]

reset_ui(p) == bind_focus_size([p EXCEPT !.focused_width_percent = DEFAULT_WIDTH_PERCENT])

AppResult(j, fp, fs, r, pn) ==
    [journal |-> j, filepath |-> fp, fs |-> fs, ret |-> r, panic |-> pn]

\* save_state: the journal goes to `target`, or to the current file
save_state(j, fp, fs, target, nonce_data, io) ==
    Bind(save_encrypt(j, IF IsSome(target) THEN Unwrap(target) ELSE fp, j.password,
                      nonce_data, io, fs),
         LAMBDA r :
            IF r.panic THEN AppResult(j, fp, fs, Aborted, TRUE)
            ELSE IF r.ret.kind = "Err" THEN AppResult(j, fp, r.fs, r.ret, FALSE)
            ELSE AppResult(j, IF IsSome(target) THEN Unwrap(target) ELSE fp, r.fs, Unit, FALSE))

\* load_state with the current file path taken over before the file is read
load_existing_path_first(j, fp, fs, name, k, merge, io) ==
    Bind(load_decrypt(name, k, io, fs),
         LAMBDA loaded :
            IF loaded.kind = "panic" THEN AppResult(j, fp, fs, Aborted, TRUE)
            ELSE IF loaded.kind = "Err" THEN AppResult(j, name, fs, loaded, FALSE)
            ELSE AppResult([(IF merge THEN Journal_add(Journal_clone(j), Unwrap(loaded.val))
                             ELSE Unwrap(loaded.val)) EXCEPT !.password = k],
                           name, fs, Unit, FALSE))

\* load_state that writes the journal it ends with back to the file it read
load_existing_writes_back(j, fp, fs, name, k, merge, io) ==
    Bind(load_decrypt(name, k, io, fs),
         LAMBDA loaded :
            IF loaded.kind = "panic" THEN AppResult(j, fp, fs, Aborted, TRUE)
            ELSE IF loaded.kind = "Err" THEN AppResult(j, fp, fs, loaded, FALSE)
            ELSE Bind([(IF merge THEN Journal_add(Journal_clone(j), Unwrap(loaded.val))
                        ELSE Unwrap(loaded.val)) EXCEPT !.password = k],
                      LAMBDA merged :
                         AppResult(merged, name,
                                   save_encrypt(merged, name, k, Rep(0, NONCE_SIZE), "ok", fs).fs,
                                   Unit, FALSE)))

\* load_state, once the file exists
load_existing(j, fp, fs, name, k, merge, io) ==
    Bind(load_decrypt(name, k, io, fs),
         LAMBDA loaded :
            IF loaded.kind = "panic" THEN AppResult(j, fp, fs, Aborted, TRUE)
            ELSE IF loaded.kind = "Err" THEN AppResult(j, fp, fs, loaded, FALSE)
            ELSE AppResult([(IF merge THEN Journal_add(Journal_clone(j), Unwrap(loaded.val))
                             ELSE Unwrap(loaded.val)) EXCEPT !.password = k],
                           name, fs, Unit, FALSE))

\* load_state: a file that does not exist is created first
load_state(j, fp, fs, name, k, merge, nonce_data, wio, rio) ==
    IF ~exists(fs, name)
    THEN Bind(save_encrypt(Journal_new(name), name, k, nonce_data, wio, fs),
              LAMBDA created :
                 IF created.panic THEN AppResult(j, fp, fs, Aborted, TRUE)
                 ELSE IF created.ret.kind = "Err"
                 THEN AppResult(j, fp, created.fs, Err("failed to create new file"), FALSE)
                 ELSE load_existing(j, fp, created.fs, name, k, merge, rio))
    ELSE load_existing(j, fp, fs, name, k, merge, rio)

\* handle_journal_prompt_event, PromptEvent::Result(result_text), on the
\* selected project p whose request was `request`
journal_prompt_result(j, p, request, result_text, oc) ==
    LET q == [p EXCEPT !.prompt_request = None]
        closed == with_project(j, q)
    IN  IF request = "AddProject"
        THEN [closed EXCEPT !.projects = add_item(@, Project_new(result_text), TRUE, oc).self]
        ELSE IF request = "SetPassword"
        THEN [closed EXCEPT !.password = result_text]
        ELSE IF request = "AddSubProject"
        THEN with_project(j, bind_focus_size(
                 [q EXCEPT !.subprojects =
                     add_item(@, SubProject_new(result_text), TRUE, oc).self]))
        ELSE IF request = "RenameJournal"
        THEN [closed EXCEPT !.name = result_text]
        ELSE IF request = "RenameProject"
        THEN with_project(j, [q EXCEPT !.name = result_text])
        ELSE IF ~IsSome(subproject(q)) THEN closed
        ELSE IF request = "AddTask"
        THEN with_project(j, with_subproject(q,
                 [Unwrap(subproject(q)) EXCEPT !.tasks =
                     add_item(@, Task_new(result_text), TRUE, oc).self]))
        ELSE IF request = "RenameSubProject"
        THEN with_project(j, with_subproject(q, [Unwrap(subproject(q)) EXCEPT !.name = result_text]))
        ELSE IF request = "RenameTask" /\ IsSome(task(Unwrap(subproject(q))))
        THEN with_project(j, with_subproject(q,
                 with_task(Unwrap(subproject(q)),
                           [Unwrap(task(Unwrap(subproject(q)))) EXCEPT !.desc = result_text])))
        ELSE closed

\* set_project_prompt on the selected project, if there is one
open_project_prompt(j, request) ==
    IF IsSome(project(j))
    THEN with_project(j, [Unwrap(project(j)) EXCEPT !.prompt_request = Some(request)])
    ELSE j

(***************************************************************************)
(* handle_journal_event and handle_journal_prompt_event                    *)
(* (src/ui/events.rs): what a key does to the journal.                     *)
(***************************************************************************)
JDone(j) == [journal |-> j, panic |-> FALSE]
JPanic(j) == [journal |-> j, panic |-> TRUE]

\* the SelectionList method a navigation, shift or delete key calls
list_key(m, l, oc) ==
    CASE m = "pop_selected" -> pop_selected(l)
      [] m = "deselect" -> deselect(l)
      [] m = "select_next" -> select_next(l, oc)
      [] m = "select_prev" -> select_prev(l, oc)
      [] m = "shift_next" -> shift_next(l, oc)
      [] m = "shift_prev" -> shift_prev(l)

\* handle_journal_event: a key that calls method m on the project list, on
\* the sub-projects of the selected project, or on the tasks of its selected
\* sub-project
journal_list_key(j, level, m, oc) ==
    IF level = "projects"
    THEN \*  state.journal.projects.m()
         LET r == list_key(m, j.projects, oc)
         IN  [journal |-> [j EXCEPT !.projects = r.self], panic |-> r.panic]
    ELSE IF ~IsSome(project(j)) THEN JDone(j)
    ELSE LET p == Unwrap(project(j))
         IN  IF level = "subprojects"
             THEN LET r == list_key(m, p.subprojects, oc)
                  IN  [journal |-> with_project(j, [p EXCEPT !.subprojects = r.self]),
                       panic |-> r.panic]
             ELSE IF ~IsSome(subproject(p)) THEN JDone(j)
             ELSE LET sp == Unwrap(subproject(p))
                      r == list_key(m, sp.tasks, oc)
                  IN  [journal |-> with_project(j, with_subproject(p, [sp EXCEPT !.tasks = r.self])),
                       panic |-> r.panic]

\* move_task that puts the task at the front of the target sub-project
move_task_to_front(j, p1, popped_task, to_prev, oc) ==
    LET idx == IF to_prev THEN prev_index(p1.subprojects, oc) ELSE next_index(p1.subprojects, oc)
    IN  IF idx.panic THEN JPanic(j)
        ELSE IF ~IsSome(get_item(p1.subprojects, idx.ret.val)) THEN JPanic(j)
        ELSE LET at == IF IsSome(idx.ret.val) THEN Unwrap(idx.ret.val)
                       ELSE Unwrap(p1.subprojects.selection)
                 target == p1.subprojects.items[at + 1]
                 ins == insert_item(target.tasks, None, popped_task, TRUE)
                 p2 == [p1 EXCEPT !.subprojects.items[at + 1] = [target EXCEPT !.tasks = ins.self]]
                 moved == IF to_prev THEN select_prev(p2.subprojects, oc)
                          ELSE select_next(p2.subprojects, oc)
             IN  IF ins.panic \/ moved.panic THEN JPanic(j)
                 ELSE JDone(with_project(j, [p2 EXCEPT !.subprojects = moved.self]))

\* move_task, after the task was popped: p1 is the project without it
move_task_to(j, p1, popped_task, to_prev, oc) ==
    LET idx == IF to_prev THEN prev_index(p1.subprojects, oc) ELSE next_index(p1.subprojects, oc)
    IN  IF idx.panic THEN JPanic(j)
        ELSE IF ~IsSome(get_item(p1.subprojects, idx.ret.val)) THEN JPanic(j)
        ELSE LET at == IF IsSome(idx.ret.val) THEN Unwrap(idx.ret.val)
                       ELSE Unwrap(p1.subprojects.selection)
                 target == p1.subprojects.items[at + 1]
                 ins == insert_item(target.tasks, target.tasks.selection, popped_task, TRUE)
                 p2 == [p1 EXCEPT !.subprojects.items[at + 1] = [target EXCEPT !.tasks = ins.self]]
                 moved == IF to_prev THEN select_prev(p2.subprojects, oc)
                          ELSE select_next(p2.subprojects, oc)
             IN  IF ins.panic \/ moved.panic THEN JPanic(j)
                 ELSE JDone(with_project(j, [p2 EXCEPT !.subprojects = moved.self]))

\* move_task (Ctrl-l, Ctrl-h)
move_task(j, to_prev, oc) ==
    IF ~IsSome(project(j)) THEN JDone(j)
    ELSE IF ~IsSome(subproject(Unwrap(project(j)))) THEN JDone(j)
    ELSE LET p == Unwrap(project(j))
             sp == Unwrap(subproject(p))
             popped == pop_selected(sp.tasks)
         IN  IF popped.panic THEN JPanic(j)
             ELSE IF ~IsSome(popped.ret.val) THEN JDone(j)
             ELSE move_task_to(j, with_subproject(p, [sp EXCEPT !.tasks = popped.self]),
                               Unwrap(popped.ret.val), to_prev, oc)

U16_MAX == 65535

\* '=': focused_width_percent += 5 (u16), then bind_focus_size
key_widen(j, oc) ==
    IF ~IsSome(project(j)) THEN JDone(j)
    ELSE LET p == Unwrap(project(j))
             w == p.focused_width_percent + 5
         IN  IF w > U16_MAX /\ oc THEN JPanic(j)
             ELSE JDone(with_project(j, bind_focus_size(
                      [p EXCEPT !.focused_width_percent = w % (U16_MAX + 1)])))

\* '-': focused_width_percent.saturating_sub(5), then bind_focus_size
key_narrow(j) ==
    IF ~IsSome(project(j)) THEN JDone(j)
    ELSE LET p == Unwrap(project(j))
         IN  JDone(with_project(j, bind_focus_size(
                 [p EXCEPT !.focused_width_percent = IF @ > 5 THEN @ - 5 ELSE 0])))

\* '\': split_vertical = !split_vertical
key_split(j) ==
    IF ~IsSome(project(j)) THEN JDone(j)
    ELSE JDone(with_project(j, [Unwrap(project(j)) EXCEPT !.split_vertical = ~@]))

\* a digit key: projects.select(digit as usize - 1).ok()
key_digit(j, digit, oc) ==
    IF SubOverflows(digit, 1) /\ oc THEN JPanic(j)
    ELSE JDone([j EXCEPT !.projects = select(@, WrapSub(digit, 1)).self])

\* Shift-R: the RenameSubProject prompt, if a sub-project is selected
key_rename_subproject(j) ==
    IF ~IsSome(project(j)) THEN JDone(j)
    ELSE IF ~IsSome(Unwrap(project(j)).subprojects.selection) THEN JDone(j)
    ELSE IF ~IsSome(subproject(Unwrap(project(j)))) THEN JPanic(j)
    ELSE JDone(open_project_prompt(j, "RenameSubProject"))

\* r: the RenameTask prompt, if a task is selected
key_rename_task(j) ==
    IF ~IsSome(project(j)) THEN JDone(j)
    ELSE IF ~IsSome(subproject(Unwrap(project(j)))) THEN JDone(j)
    ELSE IF ~IsSome(task(Unwrap(subproject(Unwrap(project(j)))))) THEN JDone(j)
    ELSE JDone(open_project_prompt(j, "RenameTask"))

(***************************************************************************)
(* The application as a state machine: one action per key event, in the    *)
(* order handle_event dispatches them.                                     *)
(***************************************************************************)
AppFrame == UNCHANGED <<overflow_checks, list, before, cryptoVars, args>>

\* a run that counts its key events handles at most MaxKeys of them
CountKey ==
    /\ steps < MaxKeys
    /\ steps' = IF steps < 0 THEN steps ELSE steps + 1

AppStep(name, j, fp, fs, pr, fr, r, pn) ==
    /\ ~panicked
    /\ op' = name
    /\ journal' = j
    /\ filepath' = fp
    /\ files' = fs
    /\ prompt_request' = pr
    /\ file_request' = fr
    /\ ret' = r
    /\ panicked' = pn
    /\ CountKey
    /\ AppFrame

\* handle_event: which handler gets the key
is_prompt ==
    IF IsSome(project(journal)) THEN IsSome(Unwrap(project(journal)).prompt_request)
    ELSE FALSE
AppPromptMode == IsSome(prompt_request)
FileListMode == ~AppPromptMode /\ IsSome(file_request)
JournalPromptMode == ~AppPromptMode /\ ~IsSome(file_request) /\ is_prompt
JournalMode == ~AppPromptMode /\ ~IsSome(file_request) /\ ~is_prompt

\* handle_global_event: Ctrl-n
KeyCtrlN ==
    AppStep("key", journal, filepath, files, Some(NewJournal), file_request, Unit, FALSE)

\* handle_app_prompt_event: Esc
AppPromptCancel ==
    /\ AppPromptMode
    /\ AppStep("key", journal, filepath, files, None, file_request, Unit, FALSE)

\* handle_app_prompt_event: Enter on the NewJournal prompt
SubmitNewJournal ==
    /\ AppPromptMode
    /\ Unwrap(prompt_request).kind = "NewJournal"
    /\ \E result_text \in FileTexts, nonce_data \in AppNonces, io \in WriteOutcomes :
           \E r \in {save_state(Journal_new(result_text), result_text, files, None,
                                nonce_data, io)} :
               AppStep("new_journal",
                       IF r.ret.kind = "unit" /\ IsSome(project(r.journal))
                       THEN with_project(r.journal, reset_ui(Unwrap(project(r.journal))))
                       ELSE r.journal,
                       r.filepath, r.fs, None, file_request, r.ret, r.panic)

\* load_state with what the environment does to the write (if the file has
\* to be created) and to the read
LoadOutcomes(name, k, merge) ==
    IF exists(files, name)
    THEN {load_state(journal, filepath, files, name, k, merge, Rep(0, NONCE_SIZE), "ok", rio) :
            rio \in ReadOutcomes}
    ELSE {load_state(journal, filepath, files, name, k, merge, nonce_data, wio, rio) :
            nonce_data \in AppNonces, wio \in WriteOutcomes, rio \in ReadOutcomes}

\* handle_app_prompt_event: Enter on the password prompt of LoadFile(name)
SubmitLoadFile ==
    /\ AppPromptMode
    /\ Unwrap(prompt_request).kind = "LoadFile"
    /\ \E result_text \in PasswordTexts :
           \E r \in LoadOutcomes(Unwrap(prompt_request).name, result_text, FALSE) :
               AppStep("load", r.journal, r.filepath, r.fs, None, file_request, r.ret, r.panic)

\* handle_app_prompt_event: Enter on the password prompt of MergeFile(name)
SubmitMergeFile ==
    /\ AppPromptMode
    /\ Unwrap(prompt_request).kind = "MergeFile"
    /\ \E result_text \in PasswordTexts :
           \E r \in LoadOutcomes(Unwrap(prompt_request).name, result_text, TRUE) :
               /\ len(r.journal.projects) <= MaxProjects
               /\ AppStep("merge", r.journal, r.filepath, r.fs, None, file_request, r.ret, r.panic)

\* handle_filelist_event: Esc
FileListCancel ==
    /\ FileListMode
    /\ AppStep("key", journal, filepath, files, prompt_request, None, Unit, FALSE)

\* handle_filelist_event: a file name comes back for FileRequest::Load
FileListLoad ==
    /\ FileListMode
    /\ Unwrap(file_request) = "Load"
    /\ \E name \in FileTexts :
           AppStep("key", journal, filepath, files, Some(LoadFile(name)), None, Unit, FALSE)

\* handle_filelist_event: a file name comes back for FileRequest::LoadMerge
FileListMerge ==
    /\ FileListMode
    /\ Unwrap(file_request) = "LoadMerge"
    /\ \E name \in FileTexts :
           AppStep("key", journal, filepath, files, Some(MergeFile(name)), None, Unit, FALSE)

\* handle_filelist_event: a file name comes back for FileRequest::Save
FileListSave ==
    /\ FileListMode
    /\ Unwrap(file_request) = "Save"
    /\ \E name \in FileTexts, nonce_data \in AppNonces, io \in WriteOutcomes :
           \E r \in {save_state(journal, filepath, files, Some(name), nonce_data, io)} :
               AppStep("save_as", r.journal, r.filepath, r.fs, prompt_request, None, r.ret, r.panic)

\* handle_journal_prompt_event: Esc
JournalPromptCancel ==
    /\ JournalPromptMode
    /\ AppStep("key",
               with_project(journal, [Unwrap(project(journal)) EXCEPT !.prompt_request = None]),
               filepath, files, prompt_request, file_request, Unit, FALSE)

\* handle_journal_prompt_event: Enter on the AddProject prompt
SubmitAddProject ==
    /\ JournalPromptMode
    /\ Unwrap(project(journal)).prompt_request = Some("AddProject")
    /\ len(journal.projects) < MaxProjects
    /\ \E result_text \in ProjectTexts :
           AppStep("add_project",
                   journal_prompt_result(journal, Unwrap(project(journal)), "AddProject",
                                         result_text, overflow_checks),
                   filepath, files, prompt_request, file_request, Unit, FALSE)

\* handle_journal_prompt_event: Enter on the SetPassword prompt
SubmitSetPassword ==
    /\ JournalPromptMode
    /\ Unwrap(project(journal)).prompt_request = Some("SetPassword")
    /\ \E result_text \in PasswordTexts :
           AppStep("set_password",
                   journal_prompt_result(journal, Unwrap(project(journal)), "SetPassword",
                                         result_text, overflow_checks),
                   filepath, files, prompt_request, file_request, Unit, FALSE)

\* handle_journal_event: Alt-n
KeyAltN ==
    /\ JournalMode
    /\ AppStep("key", open_project_prompt(journal, "AddProject"), filepath, files,
               prompt_request, file_request, Unit, FALSE)

\* handle_journal_event: Ctrl-p
KeyCtrlP ==
    /\ JournalMode
    /\ AppStep("key", open_project_prompt(journal, "SetPassword"), filepath, files,
               prompt_request, file_request, Unit, FALSE)

\* handle_journal_event: Ctrl-o
KeyCtrlO ==
    /\ JournalMode
    /\ AppStep("key", journal, filepath, files, prompt_request, Some("Load"), Unit, FALSE)

\* handle_journal_event: Shift-O
KeyShiftO ==
    /\ JournalMode
    /\ AppStep("key", journal, filepath, files, prompt_request, Some("LoadMerge"), Unit, FALSE)

\* handle_journal_event: Alt-s
KeyAltS ==
    /\ JournalMode
    /\ AppStep("key", journal, filepath, files, prompt_request, Some("Save"), Unit, FALSE)

\* handle_journal_event: Ctrl-s
KeyCtrlS ==
    /\ JournalMode
    /\ \E nonce_data \in AppNonces, io \in WriteOutcomes :
           \E r \in {save_state(journal, filepath, files, None, nonce_data, io)} :
               AppStep("save", r.journal, r.filepath, r.fs, prompt_request, file_request, r.ret, r.panic)

\* a file of another program: it decrypts under the empty password and is
\* not a journal
ForeignFile == Unwrap(encrypt(<<1, 2, 3>>, <<>>, Rep(0, NONCE_SIZE)).val)

\* App::new, in a data directory that is empty or holds one file
InitApp ==
    /\ journal = Journal_default
    /\ filepath = FILE_NEW_PROJECT
    /\ files \in {[n \in FileNames |-> IF n = FILE_NEW_PROJECT THEN c ELSE None] :
                    c \in {None, Some(OldFile), Some(ForeignFile)}}
    /\ prompt_request = None
    /\ file_request = None
    /\ op = "new"
    /\ ret = Unit
    /\ panicked = FALSE
    /\ overflow_checks = TRUE
    /\ list = default
    /\ before = default
    /\ plaintext = <<>>
    /\ key = <<>>
    /\ blob = None
    /\ dkey = <<>>
    /\ derived = None
    /\ truncated = FALSE
    /\ args = <<>>
    /\ steps = -1

NextApp ==
    \/ KeyCtrlN
    \/ AppPromptCancel
    \/ SubmitNewJournal
    \/ SubmitLoadFile
    \/ SubmitMergeFile
    \/ FileListCancel
    \/ FileListLoad
    \/ FileListMerge
    \/ FileListSave
    \/ JournalPromptCancel
    \/ SubmitAddProject
    \/ SubmitSetPassword
    \/ KeyAltN
    \/ KeyCtrlP
    \/ KeyCtrlO
    \/ KeyShiftO
    \/ KeyAltS
    \/ KeyCtrlS

SpecApp == InitApp /\ [][NextApp]_vars

\* C7: a failed load or merge (I/O error, decryption failure or
\* deserialization error in load_state) leaves the journal in memory, its
\* name and password, and the current file path exactly as they were.
C7_FailedLoadKeepsState ==
    [][(op' \in {"load", "merge"} /\ ret'.kind = "Err")
           => (journal' = journal /\ filepath' = filepath)]_vars

\* a load or merge has just failed on a journal that was edited and whose
\* file is not the one the load named
C7_Witness ==
    /\ op \in {"load", "merge"}
    /\ ret.kind = "Err"
    /\ journal # Journal_default
    /\ filepath # FILE_NEW_PROJECT

\* C19: after a successful merge of the journal b on disk into the journal a
\* in memory (load_state with merge = true), the journal in memory has a's
\* name and a's password and its projects are a's followed by b's.
C19_MergeKeepsIdentity ==
    [][(op' = "merge" /\ ret' = Unit) =>
          /\ journal'.name = journal.name
          /\ journal'.password = journal.password
          /\ \E k \in PasswordTexts :
                \E b \in {load_decrypt(Unwrap(prompt_request).name, k, "ok", files')} :
                    /\ b.kind = "Ok"
                    /\ journal'.projects.items =
                           Journal_clone(journal).projects.items \o Unwrap(b.val).projects.items]_vars

(***************************************************************************)
(* Every key event of the application: the actions above and the keys of   *)
(* handle_journal_event, handle_journal_prompt_event and the file picker   *)
(* that edit the journal, move the cursors or delete a file.  A run starts *)
(* from a snapshot of a session and handles at most MaxKeys key events.    *)
(***************************************************************************)
JournalStep(name, r) ==
    AppStep(name, r.journal, filepath, files, prompt_request, file_request,
            IF r.panic THEN Aborted ELSE Unit, r.panic)

\* handle_global_event: Alt-o (open_datadir spawns xdg-open)
KeyAltO == AppStep("key", journal, filepath, files, prompt_request, file_request, Unit, FALSE)

\* handle_journal_event: Shift-N, n, Ctrl-r, Alt-r
KeyOpenPrompt ==
    /\ JournalMode
    /\ \E request \in {"AddSubProject", "AddTask", "RenameJournal", "RenameProject"} :
           JournalStep("key", JDone(open_project_prompt(journal, request)))

\* handle_journal_event: Shift-R
KeyShiftR == JournalMode /\ \E r \in {key_rename_subproject(journal)} : JournalStep("key", r)

\* handle_journal_event: r
KeyR == JournalMode /\ \E r \in {key_rename_task(journal)} : JournalStep("key", r)

ListLevels == {"projects", "subprojects", "tasks"}
ListMethods == {"pop_selected", "select_next", "select_prev", "shift_next", "shift_prev"}

\* handle_journal_event: Alt-d, Shift-D, d; Tab, BackTab, Ctrl-PageDown,
\* Ctrl-PageUp, l, h, j, k; Alt-PageDown, Alt-PageUp, Shift-L, Shift-H,
\* Ctrl-j, Ctrl-k
KeyListMethod ==
    /\ JournalMode
    /\ \E level \in ListLevels, m \in ListMethods :
           \E r \in {journal_list_key(journal, level, m, overflow_checks)} :
               JournalStep("edit", r)

\* handle_journal_event: Esc
KeyEsc ==
    /\ JournalMode
    /\ \E r \in {journal_list_key(journal, "tasks", "deselect", overflow_checks)} :
           JournalStep("edit", r)

\* handle_journal_event: Ctrl-l, Ctrl-h
KeyMoveTask ==
    /\ JournalMode
    /\ \E to_prev \in BOOLEAN :
           \E r \in {move_task(journal, to_prev, overflow_checks)} : JournalStep("move_task", r)

\* handle_journal_event: '='
KeyWiden == JournalMode /\ \E r \in {key_widen(journal, overflow_checks)} : JournalStep("widen", r)

\* handle_journal_event: '-'
KeyNarrow == JournalMode /\ \E r \in {key_narrow(journal)} : JournalStep("edit", r)

\* handle_journal_event: '\'
KeySplit == JournalMode /\ \E r \in {key_split(journal)} : JournalStep("edit", r)

\* handle_journal_event: '0' .. '9'
KeyDigit ==
    /\ JournalMode
    /\ \E digit \in 0..9 :
           \E r \in {key_digit(journal, digit, overflow_checks)} : JournalStep("digit", r)

\* handle_journal_event: any other key
KeyOther == JournalMode /\ JournalStep("key", JDone(journal))

\* handle_journal_prompt_event: Enter on the other project prompts
SubmitJournalPrompt ==
    /\ JournalPromptMode
    /\ \E request \in {"AddSubProject", "AddTask", "RenameJournal", "RenameProject",
                       "RenameSubProject", "RenameTask"}, result_text \in ProjectTexts :
           /\ Unwrap(project(journal)).prompt_request = Some(request)
           /\ JournalStep("submit", JDone(journal_prompt_result(journal, Unwrap(project(journal)),
                                                                 request, result_text,
                                                                 overflow_checks)))

\* handle_app_prompt_event / handle_journal_prompt_event: a key typed into
\* the prompt (PromptEvent::AwaitingResult)
PromptTyping ==
    /\ AppPromptMode \/ JournalPromptMode
    /\ JournalStep("key", JDone(journal))

\* handle_filelist_event: FileListResult::AwaitingResult (j, k, Tab, F5, a
\* key typed into the picker's prompt)
FileListAwaiting == FileListMode /\ JournalStep("key", JDone(journal))

\* FileListWidget::handle_event_list: 'd' removes the selected file
FileListDelete ==
    /\ FileListMode
    /\ \E name \in FileNames, io \in {"ok", "error"} :
           /\ ~IsDir(name)
           /\ IsSome(files[name])
           /\ IF io = "ok"
              THEN AppStep("delete_file", journal, filepath, [files EXCEPT ![name] = None],
                           prompt_request, file_request, Unit, FALSE)
              ELSE AppStep("delete_file", journal, filepath, files,
                           prompt_request, file_request, Aborted, TRUE)

\* a journal after some editing: l, n "t" Enter, Shift-N "s" Enter, h
EditedJournal ==
    [Journal_default EXCEPT !.projects.items[1] =
        [Project_default EXCEPT
            !.subprojects =
                SelectionList(<<[name |-> STR_TASKS,
                                 tasks |-> SelectionList(<<Task_new(<<116>>)>>, Some(0))],
                                SubProject_new(<<115>>)>>, Some(0)),
            !.focused_width_percent = 50]]

InitKeys ==
    /\ journal \in {Journal_default, EditedJournal}
    /\ filepath = FILE_NEW_PROJECT
    /\ files \in {[n \in FileNames |-> IF n = FILE_NEW_PROJECT THEN c ELSE None] :
                    c \in {None, Some(OldFile)}}
    /\ prompt_request \in {None, Some(LoadFile(FILE_NEW_PROJECT)), Some(MergeFile(FILE_NEW_PROJECT))}
    /\ file_request = None
    /\ op = "new"
    /\ ret = Unit
    /\ panicked = FALSE
    /\ overflow_checks \in BOOLEAN
    /\ list = default
    /\ before = default
    /\ plaintext = <<>>
    /\ key = <<>>
    /\ blob = None
    /\ dkey = <<>>
    /\ derived = None
    /\ truncated = FALSE
    /\ args = <<>>
    /\ steps = 0

NextKeys ==
    \/ KeyCtrlN
    \/ KeyAltO
    \/ AppPromptCancel
    \/ SubmitNewJournal
    \/ SubmitLoadFile
    \/ SubmitMergeFile
    \/ FileListCancel
    \/ FileListLoad
    \/ FileListMerge
    \/ FileListSave
    \/ FileListAwaiting
    \/ FileListDelete
    \/ JournalPromptCancel
    \/ SubmitAddProject
    \/ SubmitSetPassword
    \/ SubmitJournalPrompt
    \/ PromptTyping
    \/ KeyAltN
    \/ KeyCtrlP
    \/ KeyCtrlO
    \/ KeyShiftO
    \/ KeyAltS
    \/ KeyCtrlS
    \/ KeyOpenPrompt
    \/ KeyShiftR
    \/ KeyR
    \/ KeyListMethod
    \/ KeyEsc
    \/ KeyMoveTask
    \/ KeyWiden
    \/ KeyNarrow
    \/ KeySplit
    \/ KeyDigit
    \/ KeyOther

SpecKeys == InitKeys /\ [][NextKeys]_vars

\* the file a load or merge prompt names is not there yet
LoadsMissingPath ==
    /\ IsSome(prompt_request)
    /\ Unwrap(prompt_request).kind \in {"LoadFile", "MergeFile"}
    /\ ~exists(files, Unwrap(prompt_request).name)

\* C20: the files on disk change only through an explicit save (Ctrl-S or
\* Save-As), creating a new journal, loading a path that does not exist, or
\* deleting a file in the file picker; every other key event (merging an
\* existing file, setting the password, adding, renaming, deleting,
\* reordering or moving items at any level) leaves every file unchanged.
C20_NoAutosave ==
    [][files' # files =>
          \/ op' \in {"save", "save_as", "new_journal", "delete_file"}
          \/ op' \in {"load", "merge"} /\ LoadsMissingPath]_vars

\* a key has just edited the journal while a file of an earlier save lies
\* on disk
C20_Witness ==
    /\ op \in {"edit", "submit", "set_password", "add_project"}
    /\ journal \notin {Journal_default, EditedJournal}
    /\ files[FILE_NEW_PROJECT] = Some(OldFile)

\* the errors of load_state that come from the file system refusing the
\* write or the read
IoFailed(r) == r \in {Err("io error"), Err("failed to create new file")}

\* C21: loading a path that does not exist first saves the default journal
\* to that path under the given password and then loads it: unless the file
\* system fails, the load succeeds, the file exists afterwards and the
\* journal in memory equals the default journal.
C21_LoadMissingPath ==
    [][(op' = "load" /\ LoadsMissingPath /\ ~IoFailed(ret')) =>
          /\ ret' = Unit
          /\ IsSome(files'[Unwrap(prompt_request).name])
          /\ journal' = Journal_default]_vars

(***************************************************************************)
(* The scenario of the specification run on the code: a journal made by    *)
(* Journal::new is edited through the prompts of                           *)
(* handle_journal_prompt_event, saved by save_encrypt and read back by     *)
(* load_decrypt.  `args` records the calls made so far.                    *)
(***************************************************************************)
MaxScenario == 5

STR_J == <<74>>
STR_P1 == <<80, 49>>
STR_S1 == <<83, 49>>
STR_BUY_MILK == <<98, 117, 121, 32, 109, 105, 108, 107>>
STR_HUNTER2 == <<104, 117, 110, 116, 101, 114, 50>>
FILE_J1 == <<97>>

ScenarioStep(name, text, j, fs, r, pn) ==
    /\ ~panicked
    /\ steps < MaxScenario
    /\ steps' = steps + 1
    /\ op' = name
    /\ args' = Append(args, <<name, text>>)
    /\ journal' = j
    /\ files' = fs
    /\ ret' = r
    /\ panicked' = pn
    /\ UNCHANGED <<overflow_checks, list, before, cryptoVars, filepath,
                   prompt_request, file_request>>

\* the prompt `request` of the selected project is answered with `text`
ScenarioPrompt(name, request, text) ==
    /\ IsSome(project(journal))
    /\ ScenarioStep(name, text,
                    journal_prompt_result(journal, Unwrap(project(journal)), request, text,
                                          overflow_checks),
                    files, Unit, FALSE)

ScenarioAddProject ==
    /\ len(journal.projects) < MaxProjects
    /\ \E text \in {STR_P1, <<112>>} : ScenarioPrompt("add_project", "AddProject", text)

ScenarioAddSubProject ==
    /\ IsSome(project(journal))
    /\ len(Unwrap(project(journal)).subprojects) < MaxProjects
    /\ \E text \in {STR_S1, <<115>>} : ScenarioPrompt("add_subproject", "AddSubProject", text)

ScenarioAddTask ==
    /\ IsSome(project(journal))
    /\ IsSome(subproject(Unwrap(project(journal))))
    /\ len(Unwrap(subproject(Unwrap(project(journal)))).tasks) < MaxProjects
    /\ \E text \in {STR_BUY_MILK, <<116>>} : ScenarioPrompt("add_task", "AddTask", text)

ScenarioSave ==
    \E k \in {STR_HUNTER2, <<>>} :
        \E r \in {save_encrypt(journal, filepath, k, Rep(0, NONCE_SIZE), "ok", files)} :
            ScenarioStep("save", k, journal, r.fs, r.ret, r.panic)

ScenarioLoad ==
    /\ op = "save"
    /\ \E k \in {STR_HUNTER2, <<>>} :
           \E r \in {load_decrypt(filepath, k, "ok", files)} :
               ScenarioStep("load", k, journal, files, r, r.kind = "panic")

InitScenario ==
    /\ journal = Journal_new(STR_J)
    /\ filepath = FILE_J1
    /\ files = [n \in FileNames |-> None]
    /\ prompt_request = None
    /\ file_request = None
    /\ op = "new"
    /\ ret = Unit
    /\ panicked = FALSE
    /\ overflow_checks \in BOOLEAN
    /\ list = default
    /\ before = default
    /\ plaintext = <<>>
    /\ key = <<>>
    /\ blob = None
    /\ dkey = <<>>
    /\ derived = None
    /\ truncated = FALSE
    /\ args = <<>>
    /\ steps = 0

NextScenario ==
    \/ ScenarioAddProject
    \/ ScenarioAddSubProject
    \/ ScenarioAddTask
    \/ ScenarioSave
    \/ ScenarioLoad

SpecScenario == InitScenario /\ [][NextScenario]_vars

\* the calls of the scenario, in its order
TheScenario ==
    <<<<"add_project", STR_P1>>, <<"add_subproject", STR_S1>>, <<"add_task", STR_BUY_MILK>>,
      <<"save", STR_HUNTER2>>, <<"load", STR_HUNTER2>>>>

\* C23: create the journal "J", add project "P1", add sub-project "S1" under
\* it, add the task "buy milk" under that, save with the password "hunter2"
\* and load with the same password: the journal loaded has exactly one
\* project, named "P1", with exactly one sub-project, named "S1", with
\* exactly one task, whose desc is "buy milk".
C23_Scenario ==
    args = TheScenario =>
        /\ ret.kind = "Ok"
        /\ len(Unwrap(ret.val).projects) = 1
        /\ Unwrap(ret.val).projects.items[1].name = STR_P1
        /\ len(Unwrap(ret.val).projects.items[1].subprojects) = 1
        /\ Unwrap(ret.val).projects.items[1].subprojects.items[1].name = STR_S1
        /\ len(Unwrap(ret.val).projects.items[1].subprojects.items[1].tasks) = 1
        /\ Unwrap(ret.val).projects.items[1].subprojects.items[1].tasks.items[1].desc
               = STR_BUY_MILK

\* C25: a save (Ctrl-s or Save-As) that reports an error leaves the contents
\* of the target file as they were before the attempt and leaves the
\* current file path unchanged.
C25_FailedSave ==
    [][(op' \in {"save", "save_as"} /\ ret'.kind = "Err") =>
          (files' = files /\ filepath' = filepath)]_vars

\* the chain project() -> subproject() -> task()
selected_task(j) ==
    IF ~IsSome(project(j)) THEN None
    ELSE IF ~IsSome(subproject(Unwrap(project(j)))) THEN None
    ELSE task(Unwrap(subproject(Unwrap(project(j)))))

\* the item under the cursor of a list, if the cursor is on an item
UnderCursor(l) ==
    IF l.selection = None THEN None
    ELSE IF Unwrap(l.selection) >= Len(l.items) THEN None
    ELSE Some(l.items[Unwrap(l.selection) + 1])

\* C26: journal.project() is the selected project or None, project.subproject()
\* the selected sub-project or None, subproject.task() the selected task or
\* None; the chain yields a task exactly when a project, a sub-project of it
\* and a task of that sub-project are all selected, and None when any level
\* is empty or unselected.
C26_Accessors ==
    /\ project(journal) = UnderCursor(journal.projects)
    /\ \A i \in 1..len(journal.projects) :
          LET p == journal.projects.items[i]
          IN  /\ subproject(p) = UnderCursor(p.subprojects)
              /\ \A k \in 1..len(p.subprojects) :
                    task(p.subprojects.items[k]) = UnderCursor(p.subprojects.items[k].tasks)
    /\ IsSome(selected_task(journal)) <=>
          /\ IsSome(UnderCursor(journal.projects))
          /\ IsSome(UnderCursor(Unwrap(UnderCursor(journal.projects)).subprojects))
          /\ IsSome(UnderCursor(Unwrap(UnderCursor(
                 Unwrap(UnderCursor(journal.projects)).subprojects)).tasks))
    /\ IsSome(selected_task(journal)) =>
          selected_task(journal) =
              UnderCursor(Unwrap(UnderCursor(
                  Unwrap(UnderCursor(journal.projects)).subprojects)).tasks)

\* a key has just edited the journal and the chain reaches a task, while
\* another sub-project of the selected project has no task selected
C26_Witness ==
    /\ op = "edit"
    /\ IsSome(selected_task(journal))
    /\ journal # EditedJournal
    /\ \E k \in 1..len(Unwrap(project(journal)).subprojects) :
          ~IsSome(task(Unwrap(project(journal)).subprojects.items[k]))

(***************************************************************************)
(* The file picker (src/ui/widgets/files.rs) over a data directory that    *)
(* other programs change between its refreshes.  A path is the sequence of *)
(* its components; `list` is the picker's filelist.                        *)
(***************************************************************************)
STR_DOT_CONFIG == <<46, 99, 111, 110, 102, 105, 103>>
STR_A_DOT_CONFIG == <<97>> \o STR_DOT_CONFIG
FILE_A == <<97>>
DIR_SUB == <<100>>
DATADIR == <<<<100, 97, 116, 97>>>>
PickerNames == {STR_DOT_CONFIG, STR_A_DOT_CONFIG, FILE_A}

\* read_dir(&self.datadir): the path of every entry, the sub-directory included
read_dir(fs) == {Append(DATADIR, n) : n \in {m \in DOMAIN fs : IsSome(fs[m])} \cup {DIR_SUB}}

\* Path::is_file
is_file(path) == path[Len(path)] # DIR_SUB

\* Path::ends_with: the components of `child` are the last components of `path`
path_ends_with(path, child) ==
    /\ Len(child) <= Len(path)
    /\ SubSeq(path, Len(path) - Len(child) + 1, Len(path)) = child

\* Path::file_name
file_name(path) == path[Len(path)]

\* the entries refresh_filelist keeps
filtered_entries(fs) ==
    {x \in read_dir(fs) : is_file(x) /\ ~path_ends_with(x, <<STR_DOT_CONFIG>>)}

\* the orders sort_by_key may give them: by age, which other programs set
sorted_entries(fs) ==
    {e \in [1..Cardinality(filtered_entries(fs)) -> filtered_entries(fs)] :
        \A i, k \in DOMAIN e : i # k => e[i] # e[k]}

RECURSIVE push_files(_, _, _)
push_files(l, entries, i) ==
    IF i > Len(entries) THEN l
    ELSE push_files(push_item(l, file_name(entries[i])).self, entries, i + 1)

\* FileListWidget::refresh_filelist
refresh_filelist(filelist, entries) == push_files(clear_items(filelist).self, entries, 1)

PickerStep(name, l, fs, r, pn) ==
    /\ ~panicked
    /\ SelectionInWindow(l)
    /\ op' = name
    /\ before' = list
    /\ list' = l
    /\ files' = fs
    /\ ret' = r
    /\ panicked' = pn
    /\ UNCHANGED <<overflow_checks, cryptoVars, journal, filepath, prompt_request,
                   file_request, args, steps>>

\* handle_event_globals: F5
PickerRefresh ==
    \E entries \in sorted_entries(files) :
        PickerStep("refresh", refresh_filelist(list, entries), files, Unit, FALSE)

\* handle_event_list: j
PickerSelectNext ==
    \E r \in {select_next(list, overflow_checks)} :
        PickerStep("select_next", r.self, files, r.ret, r.panic)

\* handle_event_list: k
PickerSelectPrev ==
    \E r \in {select_prev(list, overflow_checks)} :
        PickerStep("select_prev", r.self, files, r.ret, r.panic)

\* handle_event_list: d
PickerDelete ==
    \E r \in {pop_selected(list)} :
        IF r.panic THEN PickerStep("delete", r.self, files, Aborted, TRUE)
        ELSE IF r.ret.kind = "None" THEN PickerStep("delete", r.self, files, r.ret, FALSE)
        ELSE IF ~IsSome(files[Unwrap(r.ret.val)])
        THEN PickerStep("delete", r.self, files, Aborted, TRUE)
        ELSE \E fs \in {[files EXCEPT ![Unwrap(r.ret.val)] = None]} :
                \E entries \in sorted_entries(fs) :
                    PickerStep("delete", refresh_filelist(r.self, entries), fs, r.ret, FALSE)

\* handle_event_list: Enter
PickerEnter == PickerStep("enter", list, files, Opt(selected(list)), FALSE)

\* another program creates or removes a file of the data directory
EnvChange ==
    \E n \in PickerNames :
        PickerStep("env", list, [files EXCEPT ![n] = IF IsSome(@) THEN None ELSE Some(<<>>)],
                   Unit, FALSE)

\* FileListWidget::new
InitPicker ==
    /\ files \in [PickerNames -> {None, Some(<<>>)}]
    /\ overflow_checks \in BOOLEAN
    /\ list \in {select_next(refresh_filelist(default, entries), overflow_checks).self :
                    entries \in sorted_entries(files)}
    /\ before = default
    /\ op = "new"
    /\ ret = Unit
    /\ panicked = FALSE
    /\ plaintext = <<>>
    /\ key = <<>>
    /\ blob = None
    /\ dkey = <<>>
    /\ derived = None
    /\ truncated = FALSE
    /\ journal = <<>>
    /\ filepath = <<>>
    /\ prompt_request = None
    /\ file_request = None
    /\ args = <<>>
    /\ steps = 0

NextPicker ==
    \/ PickerRefresh
    \/ PickerSelectNext
    \/ PickerSelectPrev
    \/ PickerDelete
    \/ PickerEnter
    \/ EnvChange

SpecPicker == InitPicker /\ [][NextPicker]_vars

\* the bytes of `suffix` are the last bytes of `name`
NameEndsWith(name, suffix) ==
    /\ Len(suffix) <= Len(name)
    /\ SubSeq(name, Len(name) - Len(suffix) + 1, Len(name)) = suffix

\* C27: after a refresh the picker lists no file whose name ends in
\* ".config" and lists every other regular file of the data directory.
C27_ConfigFilter ==
    op \in {"new", "refresh"} =>
        {list.items[i] : i \in 1..len(list)} =
            {n \in PickerNames : IsSome(files[n]) /\ ~NameEndsWith(n, STR_DOT_CONFIG)}

(***************************************************************************)
(* move_task (Ctrl-l / Ctrl-h) on the selected project of a journal, from  *)
(* every arrangement of up to MaxSubs sub-projects and their task cursors. *)
(***************************************************************************)
MaxSubs == 3

MoveTasks == {Task_new(<<116>>), Task_new(<<117>>)}

\* task lists as the task keys leave them: no cursor, or a cursor on an item
MoveTaskLists ==
    {l \in {SelectionList(v, s) :
               v \in {<<>>, <<Task_new(<<116>>)>>, <<Task_new(<<116>>), Task_new(<<117>>)>>},
               s \in {None, Some(0), Some(1)}} :
        l.selection = None \/ Unwrap(l.selection) < Len(l.items)}

\* sub-project lists: a lone sub-project may be unselected (Project::default)
MoveSubProjects ==
    UNION {{SelectionList([i \in 1..n |-> [name |-> <<115>>, tasks |-> ts[i]]], sel) :
               ts \in [1..n -> MoveTaskLists],
               sel \in {Some(i) : i \in 0..(n - 1)} \cup (IF n = 1 THEN {None} ELSE {})} :
           n \in 1..MaxSubs}

MoveTask ==
    \E to_prev \in BOOLEAN :
        \E r \in {move_task(journal, to_prev, overflow_checks)} :
            /\ ~panicked
            /\ op' = "move_task"
            /\ args' = <<to_prev>>
            /\ journal' = r.journal
            /\ ret' = IF r.panic THEN Aborted ELSE Unit
            /\ panicked' = r.panic
            /\ UNCHANGED <<overflow_checks, list, before, cryptoVars, filepath, files,
                           prompt_request, file_request, steps>>

InitMove ==
    /\ journal \in {with_project(Journal_default, [Project_default EXCEPT !.subprojects = sps]) :
                       sps \in MoveSubProjects}
    /\ overflow_checks = TRUE
    /\ filepath = FILE_NEW_PROJECT
    /\ files = [n \in FileNames |-> None]
    /\ prompt_request = None
    /\ file_request = None
    /\ op = "new"
    /\ ret = Unit
    /\ panicked = FALSE
    /\ list = default
    /\ before = default
    /\ plaintext = <<>>
    /\ key = <<>>
    /\ blob = None
    /\ dkey = <<>>
    /\ derived = None
    /\ truncated = FALSE
    /\ args = <<>>
    /\ steps = 0

NextMove == MoveTask

SpecMove == InitMove /\ [][NextMove]_vars

\* v with x put at index k, and v without the item at index k
WithInserted(v, k, x) ==
    [i \in 1..(Len(v) + 1) |-> IF i <= k THEN v[i] ELSE IF i = k + 1 THEN x ELSE v[i - 1]]
WithoutIndex(v, k) == [i \in 1..(Len(v) - 1) |-> IF i <= k THEN v[i] ELSE v[i + 1]]

\* how often the task t occurs in the project p
TaskCount(p, t) ==
    Cardinality({ik \in (1..len(p.subprojects)) \X (1..2 * MaxSubs) :
                    /\ ik[2] <= len(p.subprojects.items[ik[1]].tasks)
                    /\ p.subprojects.items[ik[1]].tasks.items[ik[2]] = t})

\* what a move owes: p is the project before, q after, s the index of the
\* source sub-project, t of the target
MoveTaskPost(p, q, s, t) ==
    LET src == p.subprojects.items[s + 1].tasks
        x == src.items[Unwrap(src.selection) + 1]
        tgt == p.subprojects.items[t + 1].tasks
        k == IF IsSome(tgt.selection) THEN Unwrap(tgt.selection) ELSE 0
    IN  /\ len(q.subprojects) = len(p.subprojects)
        /\ q.subprojects.selection = Some(t)
        /\ task(q.subprojects.items[t + 1]) = Some(x)
        /\ \A y \in MoveTasks : TaskCount(q, y) = TaskCount(p, y)
        /\ t # s =>
              /\ q.subprojects.items[s + 1].tasks.items =
                     WithoutIndex(src.items, Unwrap(src.selection))
              /\ q.subprojects.items[t + 1].tasks =
                     SelectionList(WithInserted(tgt.items, k, x), Some(k))
              /\ \A i \in 1..len(p.subprojects) :
                    i \notin {s + 1, t + 1} => q.subprojects.items[i] = p.subprojects.items[i]

\* C28: move_task with a selected task removes it from the selected
\* sub-project, inserts it into the cyclically next / previous sub-project at
\* that sub-project's selection index (0 without a selection), selects it
\* there and moves the sub-project selection to the target; the multiset of
\* tasks of the project is unchanged, also when source and target coincide.
C28_MoveTask ==
    [][(op' = "move_task" /\ IsSome(selected_task(journal))) =>
          /\ ~panicked'
          /\ journal'.projects.selection = journal.projects.selection
          /\ len(journal'.projects) = len(journal.projects)
          /\ LET p == Unwrap(project(journal))
                 s == Unwrap(p.subprojects.selection)
                 n == len(p.subprojects)
             IN  MoveTaskPost(p, Unwrap(project(journal')), s,
                              IF args'[1] THEN (s + n - 1) % n ELSE (s + 1) % n)]_vars

\* a task has just been moved to the previous sub-project of three, where it
\* was inserted at that sub-project's cursor, behind another task
C28_Witness ==
    /\ op = "move_task"
    /\ args = <<TRUE>>
    /\ len(Unwrap(project(journal)).subprojects) = 3
    /\ Unwrap(project(journal)).subprojects.selection = Some(2)
    /\ Unwrap(subproject(Unwrap(project(journal)))).tasks.selection = Some(1)
    /\ len(Unwrap(subproject(Unwrap(project(journal)))).tasks) = 3

\* the sub-projects of the selected project once move_task has popped the
\* selected task
AfterPop(j) ==
    with_subproject(Unwrap(project(j)),
                    [Unwrap(subproject(Unwrap(project(j)))) EXCEPT
                        !.tasks = pop_selected(@).self]).subprojects

\* get_item_mut(next_index()) / get_item_mut(prev_index()) on the list subs
MoveTarget(subs, to_prev) ==
    Bind(IF to_prev THEN prev_index(subs, overflow_checks) ELSE next_index(subs, overflow_checks),
         LAMBDA idx : IF idx.panic THEN None ELSE get_item(subs, idx.ret.val))

\* C29: in every reachable state in which move_task pops a task from the
\* selected sub-project, get_item_mut(next_index()) and
\* get_item_mut(prev_index()) on the sub-project list return Some, so the
\* expect in move_task never fails and move_task never aborts.
C29_MoveTargetExists ==
    /\ IsSome(selected_task(journal)) =>
          \A to_prev \in BOOLEAN : IsSome(MoveTarget(AfterPop(journal), to_prev))
    /\ op = "move_task" => ~panicked

\* Ctrl-l or Ctrl-h has just moved a task into a sub-project that held
\* none, next to the sub-project it came from
C29_Witness ==
    /\ op = "move_task"
    /\ IsSome(selected_task(journal))
    /\ len(Unwrap(subproject(Unwrap(project(journal)))).tasks) = 1
    /\ Unwrap(project(journal)).subprojects.selection = Some(1)
    /\ len(Unwrap(project(journal)).subprojects.items[1].tasks) = 0

\* the task list l with the new task x placed after its selected item (at the
\* end without one) and selected
TaskAdded(l, x) ==
    IF IsSome(l.selection)
    THEN SelectionList(WithInserted(l.items, Unwrap(l.selection) + 1, x),
                       Some(Unwrap(l.selection) + 1))
    ELSE SelectionList(Append(l.items, x), Some(Len(l.items)))

\* the AddTask prompt of the selected project is open and has the keyboard
AddTaskPromptOpen ==
    /\ JournalPromptMode
    /\ Unwrap(project(journal)).prompt_request = Some("AddTask")

\* C30: whenever the AddTask prompt is open and is submitted with text t,
\* exactly one task with desc t is added: it is placed after the selected
\* task of the selected sub-project of the selected project (appended when
\* no task is selected) and becomes the selected task; the rest of the
\* journal stays as it is.
C30_AddTask ==
    [][(AddTaskPromptOpen /\ op' = "submit") =>
          /\ ~panicked'
          /\ IsSome(subproject(Unwrap(project(journal))))
          /\ \E t \in ProjectTexts :
                journal' =
                    with_project(journal,
                        with_subproject([Unwrap(project(journal)) EXCEPT !.prompt_request = None],
                            [Unwrap(subproject(Unwrap(project(journal)))) EXCEPT
                                !.tasks = TaskAdded(@, Task_new(t))]))]_vars


\* C31: after a refresh of the file picker (F5, and the refresh that follows
\* a deleted file), whatever other programs did to the directory since the
\* previous refresh, the picker's selection is None or an index smaller
\* than the number of listed files, so that a following 'd' (pop_selected)
\* does not index past the end of the list.
C31_PickerSelection ==
    (op \in {"refresh", "delete"} /\ ~panicked) =>
        /\ list.selection = None \/ Unwrap(list.selection) < len(list)
        /\ ~pop_selected(list).panic


\* C32: a merge-load leaves the application's current file path unchanged,
\* so that the Ctrl-S that follows a merge writes to the file that was
\* current before the merge.
C32_MergeKeepsFilePath ==
    [][(op' = "merge" /\ ret' = Unit) => filepath' = filepath]_vars


\* C33: if writing the file fails while a new journal is created (NewJournal
\* prompt submitted), the journal in memory and the current file path remain
\* what they were before the prompt was submitted.
C33_FailedNewJournal ==
    [][(op' = "new_journal" /\ ret'.kind = "Err")
           => (journal' = journal /\ filepath' = filepath)]_vars


\* C34: once the journal's project list is empty, no key event other than a
\* submitted NewJournal, load or merge prompt changes the journal: no project
\* is added, no project prompt opens, and the project list stays empty.
C34_EmptyJournalStays ==
    [][(Len(journal.projects.items) = 0 /\ op' \notin {"new_journal", "load", "merge"})
           => (journal' = journal /\ JournalPromptMode' = FALSE)]_vars

\* the last project was deleted and a later journal-mode key was handled on
\* the empty project list
C34_Witness ==
    /\ Len(journal.projects.items) = 0
    /\ op = "key"
    /\ JournalMode
    /\ steps >= 2


\* C35: at most one modal is open in every reachable state: the app-level
\* prompt request, the file-picker request and the selected project's prompt
\* request are never Some at the same time.
C35_OneModal ==
    /\ ~(IsSome(prompt_request) /\ IsSome(file_request))
    /\ ~(IsSome(prompt_request) /\ is_prompt)
    /\ ~(IsSome(file_request) /\ is_prompt)


\* C36: a digit key '0'..'9' pressed in journal mode makes the project
\* selection digit - 1 when that is a valid project index and leaves it
\* unchanged otherwise; computing digit - 1 never aborts, '0' included, and
\* nothing else of the journal changes.
C36_DigitKey ==
    [][op' = "digit" =>
          /\ ~panicked'
          /\ \E digit \in 0..9 :
                journal' =
                    [journal EXCEPT !.projects.selection =
                        IF digit >= 1 /\ digit - 1 < Len(journal.projects.items)
                        THEN Some(digit - 1) ELSE @]]_vars


\* C37: after any sequence of '=' and '-' keys interleaved with adding and
\* deleting sub-projects (deleting all of them included), the selected
\* project's focused_width_percent is within 5..100, and the '+= 5' of the
\* '=' key never overflows the 16-bit field.
C37_WidthInRange ==
    [][/\ IsSome(project(journal')) =>
              Unwrap(project(journal')).focused_width_percent \in 5..100
       /\ op' = "widen" =>
              /\ ~panicked'
              /\ IsSome(project(journal)) =>
                    Unwrap(project(journal)).focused_width_percent + 5 <= U16_MAX]_vars

====
